---- MODULE Spec2Model ----
(***************************************************************************)
(* Model of the event bus (src/bus.py, CommandBus and the module-level     *)
(* emit helpers) and of the workflow orchestrator (src/workflow.py):       *)
(* Workflow.__call__ with its star, chain and parallel topologies, the     *)
(* fan-out path Workflow._execute_complex_task, and the TaskRouter         *)
(* (should_use_parallel_execution and parse_complex_task on strings of     *)
(* characters); and of the audio dispatcher (src/audio_dispatcher.py):     *)
(* AudioDispatcher with split_into_sentences of src/bus.py, and            *)
(* BatchAudioDispatcher with its timer task.                               *)
(* The host process is modelled as well: the callers of get_command_bus   *)
(* that share the module-level bus, the consumer loops that subscribe,     *)
(* read and unsubscribe (speech, SSE, WebSocket and TTS), and              *)
(* CommandBus.get_next_action.                                             *)
(*                                                                         *)
(* An event is identified by the number of the publish call that made it   *)
(* (1 for the first publish call, 2 for the second, ...): the uuid of the  *)
(* code is unique per call, and the call number also records the order of  *)
(* the calls.  Payloads are the program's dict literals of strings and     *)
(* numbers, which json.dumps serialises; they are not modelled.            *)
(*                                                                         *)
(* A subscription handle is the asyncio.Queue object returned by           *)
(* subscribe(): handle h (1..nsubs) is the queue made by the h-th call.    *)
(* Handle 0 is an asyncio.Queue that was never returned by subscribe().    *)
(*                                                                         *)
(* All coroutines run on one asyncio event loop: a step of the model is    *)
(* what one coroutine does between two suspension points, or one           *)
(* synchronous call of the bus API made by some running coroutine.         *)
(***************************************************************************)
EXTENDS Integers, Sequences, FiniteSets, TLC

\* ------------------------------------------------------------------ bounds
MaxEmits == 2

MaxTexts == 2

MaxFlushes == 2
BatchMaxTexts == 2

MaxSubs == 2

\* --------------------------------------------------------- program constants
\* asyncio.Queue() is built without a maxsize: maxsize = 0, "infinite".
IntakeMaxSize == 0

ChannelMaxSize == 0

VARIABLES
    queue,        \* CommandBus._queue: the intake queue, oldest first
    subscribers,  \* CommandBus._subscribers: list of subscriber queues
    running,      \* CommandBus._running
    loopPc,       \* position of the _process_actions task
    chan,         \* contents of each subscriber queue, oldest first
    waiting,      \* waiting[h]: h's consumer is suspended in subscriber_queue.get()
    emitTasks,    \* tasks made by module-level emit() that have not run yet
    ncalls,       \* number of publish calls made so far
    nsubs,        \* number of subscribe() calls made so far
    raised,       \* exception raised to the caller by the last bus call
    lastAbsent,   \* history: the last bus call was unsubscribe() of a queue
                  \* that was not in the subscriber list
    accepted,     \* history: events in the order the intake queue accepted them
    delivered,    \* history: every event ever put on each subscriber queue
    subAt,        \* history: subAt[h] = ncalls when subscribe() returned h
    stopAt        \* history: ncalls when stop() returned, -1 before that

VARIABLES
    agents,       \* Workflow.agents: the names of the registered agents
    wfPc,         \* position of the fan-out invocation (_execute_complex_task)
    agentTasks,   \* agent_tasks, flattened: the agent of each sub-task, in
                  \* the order the dict and its lists are iterated
    parallel,     \* parallel_tasks: the dispatched sub-task of each branch
    branch,       \* state of each _execute_agent_task coroutine
    results,      \* what asyncio.gather returned
    combined,     \* what _combine_agent_results returned
    words,        \* final_text.split() in _generate_final_response
    sent,         \* number of words already emitted as token events
    wfLog,        \* history: the events the orchestrator published, in call order
    overtaken,    \* history: some execution finished while one dispatched
                  \* before it for the same agent was still running
    wfReturn      \* what the invocation returned to its caller

VARIABLES
    registry,       \* the keys of Workflow.agents in insertion order
    topology,       \* Workflow.topology
    callPc,         \* position of the invocation (Workflow.__call__)
    parallelize,    \* what should_use_parallel_execution(task) returned
    context,        \* the context argument, as the caller passed it
    callerContext,  \* the caller's context object, as it is now
    currentTask,    \* current_task of _execute_chain_topology
    currentContext, \* current_context of _execute_chain_topology
    runs,           \* history: the agent.run calls made outside the fan-out
                    \* path, with their arguments and what they did
    callLog,        \* history: the events __call__ published, in order
    callReturn      \* what __call__ returned to its caller

VARIABLES
    rawTask,        \* the task argument of the TaskRouter methods, a string
    routerPc,       \* which TaskRouter methods have been called on rawTask
    shouldParallel, \* what should_use_parallel_execution(task) returned
    parsedTasks     \* what parse_complex_task(task) returned: the agent names
                    \* in the order the keys were inserted, and the list of
                    \* sub-tasks of each agent

routerVars == <<rawTask, routerPc, shouldParallel, parsedTasks>>

VARIABLES
    textBuffer,     \* AudioDispatcher.text_buffer
    ttsConnection,  \* AudioDispatcher.tts_connection: "none" or "open"
    sinkLog,        \* history: the chunks the sink has accepted, in order
    lastCall,       \* history: the last call of the dispatcher, the buffer
                    \* and connection it found, the buffer it had before
                    \* it looked at the threshold, the sends it attempted
    arrived,        \* history: the number of characters that have arrived
    ntexts,         \* number of speech texts so far
    nflushes        \* number of flush_buffer() calls so far

dispatcherVars ==
    <<textBuffer, ttsConnection, sinkLog, lastCall, arrived, ntexts, nflushes>>

VARIABLES
    pendingTexts,   \* BatchAudioDispatcher.pending_texts
    batchTimer,     \* BatchAudioDispatcher.batch_timer: the task, where it
                    \* is suspended and the locals of the call it is in
    elapsed,        \* the time since batch_timer was created, in tenths of
                    \* a second, as far as the delay
    arrivals,       \* history: the texts of the speech events, in order,
                    \* and whether each came before the delay had passed
                    \* since the one before
    batchLog        \* history: the combined texts passed to
                    \* AudioDispatcher._process_speech_text, in order

batchVars == <<pendingTexts, batchTimer, elapsed, arrivals, batchLog>>

VARIABLES
    commandBus,     \* bus._command_bus: 0 for None, else the number of the
                    \* CommandBus instance it refers to
    instances,      \* number of CommandBus() instances created
    loopStarts,     \* number of _process_actions tasks created by start()
    obtained,       \* the instance get_command_bus() returned to each
                    \* caller, 0 before the caller has called
    consumers,      \* the consumer loop that owns each subscriber queue:
                    \* its kind and where its coroutine is
    dispatcherRunning, \* AudioDispatcher.running
    taken           \* history: the events get_next_action() returned

hostVars == <<commandBus, instances, loopStarts, obtained, consumers,
              dispatcherRunning, taken>>

extVars == <<routerVars, dispatcherVars, batchVars, hostVars>>

callVars == <<registry, topology, callPc, parallelize, context, callerContext,
              currentTask, currentContext, runs, callLog, callReturn, extVars>>

fanoutVars == <<agents, wfPc, agentTasks, parallel, branch, results, combined,
                words, sent, wfLog, overtaken, wfReturn>>

invocationVars ==
    <<registry, topology, callPc, parallelize, context, callerContext,
      currentTask, currentContext, runs, callLog, callReturn>>

wfVars == <<agents, wfPc, agentTasks, parallel, branch, results, combined,
            words, sent, wfLog, overtaken, wfReturn, callVars>>

busVars == <<queue, subscribers, running, loopPc, chan, waiting, emitTasks,
             ncalls, nsubs, raised, lastAbsent, accepted, delivered, subAt,
             stopAt>>

Handles == 0 .. MaxSubs

Events == 1 .. MaxEmits

Range(s) == {s[i] : i \in 1 .. Len(s)}

InSeq(x, s) == \E i \in 1 .. Len(s) : s[i] = x

\* asyncio.Queue.full(): never full when maxsize <= 0.
Full(q, maxsize) == maxsize > 0 /\ Len(q) >= maxsize

\* asyncio.Queue.put_nowait: raises QueueFull on a full queue, else appends.
PutNowait(q, maxsize, x) ==
    IF Full(q, maxsize) THEN [q |-> q, full |-> TRUE]
    ELSE [q |-> Append(q, x), full |-> FALSE]

\* Mutant of QueueGet: the newest item is taken first.
QueueGetNewest(q) ==
    [item |-> q[Len(q)], rest |-> SubSeq(q, 1, Len(q) - 1)]

\* asyncio.Queue.get on a non-empty queue: the oldest item.
QueueGet(q) == [item |-> Head(q), rest |-> Tail(q)]

\* list.remove(x): drops the first occurrence of x.
RECURSIVE ListRemove(_, _)
ListRemove(s, x) ==
    IF s = <<>> THEN <<>>
    ELSE IF Head(s) = x THEN Tail(s)
    ELSE <<Head(s)>> \o ListRemove(Tail(s), x)

BusInit ==
    /\ queue = <<>>
    /\ subscribers = <<>>
    /\ running = TRUE
    /\ loopPc = "created"
    /\ chan = [h \in Handles |-> <<>>]
    /\ waiting = [h \in Handles |-> FALSE]
    /\ emitTasks = <<>>
    /\ ncalls = 0
    /\ nsubs = 0
    /\ raised = "none"
    /\ lastAbsent = FALSE
    /\ accepted = <<>>
    /\ delivered = [h \in Handles |-> <<>>]
    /\ subAt = [h \in Handles |-> 0]
    /\ stopAt = -1

\* Mutant of Emit: the event is dropped when nobody is subscribed.
EmitNeedsSubscriber ==
    /\ ncalls < MaxEmits
    /\ ncalls' = ncalls + 1
    /\ queue' = IF subscribers = <<>> THEN queue
                ELSE Append(queue, ncalls + 1)
    /\ accepted' = IF subscribers = <<>> THEN accepted
                   ELSE Append(accepted, ncalls + 1)
    /\ raised' = "none"
    /\ lastAbsent' = FALSE
    /\ UNCHANGED <<subscribers, running, loopPc, chan, waiting, emitTasks,
                   nsubs, delivered, subAt, stopAt>>
    /\ UNCHANGED wfVars

\* CommandBus.emit: builds the event and puts it on the intake queue at once.
Emit ==
    /\ ncalls < MaxEmits
    /\ LET e == ncalls + 1
           r == PutNowait(queue, IntakeMaxSize, e)
       IN /\ ncalls' = e
          /\ queue' = r.q
          /\ accepted' = IF r.full THEN accepted ELSE Append(accepted, e)
    /\ raised' = "none"
    /\ lastAbsent' = FALSE
    /\ UNCHANGED <<subscribers, running, loopPc, chan, waiting, emitTasks,
                   nsubs, delivered, subAt, stopAt>>
    /\ UNCHANGED wfVars

\* Module-level emit() (and emit_speech, emit_token, emit_status,
\* emit_progress, which call it) inside the running loop: the event is
\* built, and a task that will put it on the intake queue is created.
\* (Called outside a running loop, emit() runs _emit_to_bus to its end
\* before it returns: this step followed at once by EmitToBus.)
ModuleEmit ==
    /\ ncalls < MaxEmits
    /\ ncalls' = ncalls + 1
    /\ emitTasks' = Append(emitTasks, ncalls + 1)
    /\ raised' = "none"
    /\ lastAbsent' = FALSE
    /\ UNCHANGED <<queue, subscribers, running, loopPc, chan, waiting,
                   nsubs, accepted, delivered, subAt, stopAt>>
    /\ UNCHANGED wfVars

\* _emit_to_bus: the event loop runs the tasks in the order they were made.
EmitToBus ==
    /\ emitTasks # <<>>
    /\ LET e == Head(emitTasks)
           r == PutNowait(queue, IntakeMaxSize, e)
       IN /\ queue' = r.q
          /\ accepted' = IF r.full THEN accepted ELSE Append(accepted, e)
    /\ emitTasks' = Tail(emitTasks)
    /\ UNCHANGED <<subscribers, running, loopPc, chan, waiting, ncalls,
                   nsubs, raised, lastAbsent, delivered, subAt, stopAt>>
    /\ UNCHANGED wfVars

\* CommandBus.subscribe: a fresh queue, appended to the subscriber list.
Subscribe ==
    /\ nsubs < MaxSubs
    /\ nsubs' = nsubs + 1
    /\ subscribers' = Append(subscribers, nsubs + 1)
    /\ subAt' = [subAt EXCEPT ![nsubs + 1] = ncalls]
    /\ raised' = "none"
    /\ lastAbsent' = FALSE
    /\ UNCHANGED <<queue, running, loopPc, chan, waiting, emitTasks, ncalls,
                   accepted, delivered, stopAt>>
    /\ UNCHANGED wfVars

\* Mutant of UnsubscribeList: list.remove without the membership test
\* raises ValueError for a queue that is not in the list.
UnsubscribeListUnchecked(subs, h) ==
    IF h \in Range(subs)
    THEN [subs |-> ListRemove(subs, h), raised |-> "none"]
    ELSE [subs |-> subs, raised |-> "ValueError"]

\* Mutant of UnsubscribeList: the newest subscriber is removed instead
\* of the one given.
UnsubscribeListPop(subs, h) ==
    IF h \in Range(subs)
    THEN [subs |-> SubSeq(subs, 1, Len(subs) - 1), raised |-> "none"]
    ELSE [subs |-> subs, raised |-> "none"]

\* The body of CommandBus.unsubscribe on the subscriber list.
UnsubscribeList(subs, h) ==
    IF h \in Range(subs)
    THEN [subs |-> ListRemove(subs, h), raised |-> "none"]
    ELSE [subs |-> subs, raised |-> "none"]

\* CommandBus.unsubscribe(h), for any queue object the caller holds.
Unsubscribe(h) ==
    /\ h \in 0 .. nsubs
    /\ LET r == UnsubscribeList(subscribers, h)
       IN /\ subscribers' = r.subs
          /\ raised' = r.raised
          /\ lastAbsent' = (h \notin Range(subscribers))
    /\ UNCHANGED <<queue, running, loopPc, chan, waiting, emitTasks, ncalls,
                   nsubs, accepted, delivered, subAt, stopAt>>
    /\ UNCHANGED wfVars

\* CommandBus.stop.
Stop ==
    /\ running
    /\ running' = FALSE
    /\ raised' = "none"
    /\ lastAbsent' = FALSE
    /\ UNCHANGED <<queue, subscribers, loopPc, chan, waiting, emitTasks,
                   ncalls, nsubs, accepted, delivered, subAt>>
    /\ stopAt' = ncalls
    /\ UNCHANGED wfVars

\* Mutant of Distribute: the first subscriber of the list is skipped.
DistributeSkipFirst(subs, ch, e) ==
    [subs |-> subs,
     chan |-> [h \in Handles |->
                 IF subs # <<>> /\ h \in Range(Tail(subs))
                 THEN Append(ch[h], e)
                 ELSE ch[h]]]

\* The for loop of _process_actions for one event: put it on every
\* subscriber queue of the copied list; a subscriber whose queue is full
\* is removed from the list instead.
Distribute(subs, ch, e) ==
    [subs |-> SelectSeq(subs, LAMBDA h : ~Full(ch[h], ChannelMaxSize)),
     chan |-> [h \in Handles |->
                 IF h \in Range(subs)
                 THEN PutNowait(ch[h], ChannelMaxSize, e).q
                 ELSE ch[h]]]

\* The while loop of _process_actions from one event to the next:
\* queue.get() does not suspend while the intake queue is not empty, so
\* the loop distributes every queued event before it suspends again.
RECURSIVE Drain(_, _, _)
Drain(q, subs, ch) ==
    IF q = <<>> THEN [subs |-> subs, chan |-> ch]
    ELSE LET g == QueueGet(q)
             d == Distribute(subs, ch, g.item)
         IN Drain(g.rest, d.subs, d.chan)

\* What was put on h's queue between ch and ch2.
Added(ch, ch2, h) == SubSeq(ch2[h], Len(ch[h]) + 1, Len(ch2[h]))

\* One run of the _process_actions task, from where it was suspended to
\* where it suspends next (or returns).
ProcessActions ==
    /\ \/ loopPc = "created"
       \/ loopPc = "get" /\ queue # <<>>
    /\ LET \* resumed inside queue.get(): the event is taken and distributed
           \* before `while self._running` is tested again
           first == IF loopPc = "get"
                    THEN LET g == QueueGet(queue)
                             d == Distribute(subscribers, chan, g.item)
                         IN [q |-> g.rest, subs |-> d.subs, chan |-> d.chan]
                    ELSE [q |-> queue, subs |-> subscribers, chan |-> chan]
           rest == IF running
                   THEN LET d == Drain(first.q, first.subs, first.chan)
                        IN [q |-> <<>>, subs |-> d.subs, chan |-> d.chan]
                   ELSE first
       IN /\ queue' = rest.q
          /\ subscribers' = rest.subs
          /\ chan' = rest.chan
          /\ delivered' = [h \in Handles |->
                             delivered[h] \o Added(chan, rest.chan, h)]
          /\ loopPc' = IF running THEN "get" ELSE "done"
    /\ UNCHANGED <<running, waiting, emitTasks, ncalls, nsubs, raised,
                   lastAbsent, accepted, subAt, stopAt>>
    /\ UNCHANGED wfVars

\* A consumer calls `await subscriber_queue.get()`: it takes the oldest
\* event if there is one, and is suspended otherwise.
ConsumerGet(h) ==
    /\ h \in 1 .. nsubs
    /\ ~waiting[h]
    /\ IF chan[h] # <<>>
       THEN /\ chan' = [chan EXCEPT ![h] = QueueGet(chan[h]).rest]
            /\ UNCHANGED waiting
       ELSE /\ waiting' = [waiting EXCEPT ![h] = TRUE]
            /\ UNCHANGED chan
    /\ UNCHANGED <<queue, subscribers, running, loopPc, emitTasks, ncalls,
                   nsubs, raised, lastAbsent, accepted, delivered, subAt,
                   stopAt>>
    /\ UNCHANGED wfVars

\* A suspended consumer is resumed with the event put on its queue.
ConsumerResume(h) ==
    /\ h \in 1 .. nsubs
    /\ waiting[h]
    /\ chan[h] # <<>>
    /\ chan' = [chan EXCEPT ![h] = QueueGet(chan[h]).rest]
    /\ waiting' = [waiting EXCEPT ![h] = FALSE]
    /\ UNCHANGED <<queue, subscribers, running, loopPc, emitTasks, ncalls,
                   nsubs, raised, lastAbsent, accepted, delivered, subAt,
                   stopAt>>
    /\ UNCHANGED wfVars

\* ------------------------------------------------ the workflow orchestrator
MaxTasks == 3

Agents == {"WeatherAgent", "CalendarAgent", "PlannerAgent"}

\* What one agent.run call can do: return a result with a text field the
\* orchestrator recognises (formatted_response, final_response,
\* response_text, or weather_data for the weather agent), return a result
\* without one, return a result that reports an error ({"error": ...}),
\* or raise an exception (an Exception, which `except Exception` catches).
Outcomes == {"text", "notext", "errordict", "raise"}

\* A sequence of agent names is a flattened agent_tasks dict when the
\* sub-tasks of one agent are next to each other (one list per key).
Grouped(s) ==
    \A i, j \in 1 .. Len(s) :
        (i < j /\ s[i] = s[j]) => \A k \in i .. j : s[k] = s[i]

SeqsUpTo(S, n) == UNION {[1 .. k -> S] : k \in 0 .. n}

\* What parse_complex_task reads of a part of the raw task: the first
\* keyword list that has a word in the part, in the order of the if / elif.
Categories == {"weather", "calendar", "general"}

\* A raw task, as far as parse_complex_task looks at it: whether it is a
\* multi-location weather query (_is_multi_location_weather_query), the
\* number of locations _extract_multiple_locations finds in it (fragments
\* longer than one character that start with a capital letter; there may
\* be none), and the categories of the parts _split_task_parts returns
\* (fragments longer than three characters; there may be none).
RawTasks ==
    {[multi |-> TRUE, locations |-> n, parts |-> <<>>] : n \in 0 .. MaxTasks}
    \cup {[multi |-> FALSE, locations |-> 0, parts |-> ps] :
             ps \in SeqsUpTo(Categories, MaxTasks)}

\* The agent name parse_complex_task files a part under.
AgentFor(category) ==
    CASE category = "weather" -> "WeatherAgent"
      [] category = "calendar" -> "CalendarAgent"
      [] OTHER -> "PlannerAgent"

\* The keys of agent_tasks in insertion order: the agents of the parts in
\* the order of their first part.
RECURSIVE Keys(_)
Keys(names) ==
    IF names = <<>> THEN <<>>
    ELSE LET first == Keys(SubSeq(names, 1, Len(names) - 1))
             last == names[Len(names)]
         IN IF InSeq(last, first) THEN first ELSE Append(first, last)

RECURSIVE Concat(_)
Concat(ss) == IF ss = <<>> THEN <<>> ELSE Head(ss) \o Concat(Tail(ss))

\* parse_complex_task, flattened: the agent of each sub-task, key by key
\* in insertion order and list by list in append order.
ParseComplexTask(t) ==
    IF t.multi
    THEN [i \in 1 .. t.locations |-> "WeatherAgent"]
    ELSE LET names == [i \in 1 .. Len(t.parts) |-> AgentFor(t.parts[i])]
             keys == Keys(names)
             lists == [k \in 1 .. Len(keys) |->
                         SelectSeq(names, LAMBDA a : a = keys[k])]
         IN IF names = <<>> THEN <<"PlannerAgent">> ELSE Concat(lists)

\* The dicts parse_complex_task can return.
Decompositions == {ParseComplexTask(t) : t \in RawTasks}

WfInit ==
    /\ wfPc = "idle"
    /\ agentTasks = <<>>
    /\ parallel = <<>>
    /\ branch = <<>>
    /\ results = <<>>
    /\ combined = <<>>
    /\ words = <<>>
    /\ sent = 0
    /\ wfLog = <<>>
    /\ overtaken = FALSE
    /\ wfReturn = [type |-> "none"]

\* A word of the final text: a word of the fixed wording (task 0), or
\* the text of the result of a sub-task, kept as one word.
Word(w) == [w |-> w, task |-> 0]

NoWord == Word("")

\* The events the orchestrator publishes.
SpeechEvent == [kind |-> "speech", pct |-> 0, word |-> NoWord]

StatusEvent == [kind |-> "status", pct |-> 0, word |-> NoWord]

ProgressEvent(pct) == [kind |-> "progress", pct |-> pct, word |-> NoWord]

TokenEvent(word) == [kind |-> "token", pct |-> 0, word |-> word]

\* Module-level emit_speech / emit_status / emit_progress / emit_token
\* called by the orchestrator: as ModuleEmit, once per entry of kinds.
PublishedTasks(kinds) == [i \in 1 .. Len(kinds) |-> ncalls + i]

PublishedLog(kinds) ==
    [i \in 1 .. Len(kinds) |-> [id |-> ncalls + i, event |-> kinds[i]]]

WfPublish(kinds) ==
    /\ emitTasks' = emitTasks \o PublishedTasks(kinds)
    /\ ncalls' = ncalls + Len(kinds)
    /\ wfLog' = wfLog \o PublishedLog(kinds)
    /\ UNCHANGED <<queue, subscribers, running, loopPc, chan, waiting,
                   nsubs, raised, lastAbsent, accepted, delivered, subAt,
                   stopAt>>

\* Mutant of ParallelTasks: a coroutine for every sub-task, whether its
\* agent is registered or not.
ParallelTasksUnguarded(tasks, registered) ==
    [i \in 1 .. Len(tasks) |-> [agent |-> tasks[i], task |-> i]]

\* The loops that build parallel_tasks: one coroutine per sub-task of
\* every agent that is registered, in iteration order.
ParallelTasks(tasks, registered) ==
    SelectSeq([i \in 1 .. Len(tasks) |-> [agent |-> tasks[i], task |-> i]],
              LAMBDA t : t.agent \in registered)

\* _execute_complex_task up to `await asyncio.gather(...)`.
WfDispatch ==
    /\ wfPc = "idle"
    /\ \E d \in Decompositions :
          /\ agentTasks' = d
          /\ parallel' = ParallelTasks(d, agents)
          /\ branch' = [i \in 1 .. Len(ParallelTasks(d, agents)) |->
                          [st |-> "pending"]]
    /\ wfPc' = "gather"
    /\ WfPublish(<<SpeechEvent, StatusEvent, ProgressEvent(20),
                   ProgressEvent(50)>>)
    /\ UNCHANGED <<callVars, agents, overtaken, results, combined, words,
                   sent, wfReturn>>

\* Mutant of ExecuteAgentTask: the exception of agent.run is not caught.
ExecuteAgentTaskUncaught(t, out) ==
    IF out = "raise"
    THEN [st |-> "raised", agent |-> t.agent, task |-> t.task,
          success |-> FALSE, result |-> "error"]
    ELSE [st |-> "done", agent |-> t.agent, task |-> t.task,
          success |-> TRUE, result |-> out]

\* _execute_agent_task once agent.run has returned or raised: the dict
\* the coroutine returns.
ExecuteAgentTask(t, out) ==
    IF out = "raise"
    THEN [st |-> "done", agent |-> t.agent, task |-> t.task,
          success |-> FALSE, result |-> "error"]
    ELSE [st |-> "done", agent |-> t.agent, task |-> t.task,
          success |-> TRUE, result |-> out]

\* Branch i finishes while a branch dispatched before it for the same agent
\* is suspended inside agent.run.
Overtakes(i) ==
    \E j \in 1 .. i - 1 :
        parallel[j].agent = parallel[i].agent /\ branch[j].st = "running"

\* gather starts its coroutines in the order given: branch i runs up to
\* its first suspension inside agent.run, or to its end if agent.run
\* returns or raises without suspending.
BranchStart(i) ==
    /\ wfPc = "gather"
    /\ i \in 1 .. Len(branch)
    /\ branch[i].st = "pending"
    /\ \A j \in 1 .. i - 1 : branch[j].st # "pending"
    /\ \/ /\ branch' = [branch EXCEPT ![i] = [st |-> "running"]]
          /\ UNCHANGED overtaken
       \/ /\ \E out \in Outcomes :
                branch' = [branch EXCEPT
                             ![i] = ExecuteAgentTask(parallel[i], out)]
          /\ overtaken' = (overtaken \/ Overtakes(i))
    /\ UNCHANGED <<callVars, agents, wfPc, agentTasks, parallel, results,
                   combined, words, sent, wfLog, wfReturn>>
    /\ UNCHANGED busVars

\* A suspended agent.run returns or raises.
BranchFinish(i) ==
    /\ wfPc = "gather"
    /\ i \in 1 .. Len(branch)
    /\ branch[i].st = "running"
    /\ \E out \in Outcomes :
          branch' = [branch EXCEPT ![i] = ExecuteAgentTask(parallel[i], out)]
    /\ UNCHANGED <<callVars, agents, wfPc, agentTasks, parallel, results,
                   combined, words, sent, wfLog, wfReturn>>
    /\ overtaken' = (overtaken \/ Overtakes(i))
    /\ UNCHANGED busVars

\* Mutant of AppendResult: the result goes to the front of the agent's list.
AppendResultFront(ar, agent, r) ==
    IF \E k \in 1 .. Len(ar) : ar[k].agent = agent
    THEN [k \in 1 .. Len(ar) |->
            IF ar[k].agent = agent
            THEN [agent |-> agent, results |-> <<r>> \o ar[k].results]
            ELSE ar[k]]
    ELSE Append(ar, [agent |-> agent, results |-> <<r>>])

\* dict insertion: the entries of agent_results, in insertion order.
AppendResult(ar, agent, r) ==
    IF \E k \in 1 .. Len(ar) : ar[k].agent = agent
    THEN [k \in 1 .. Len(ar) |->
            IF ar[k].agent = agent
            THEN [agent |-> agent, results |-> Append(ar[k].results, r)]
            ELSE ar[k]]
    ELSE Append(ar, [agent |-> agent, results |-> <<r>>])

\* Mutant of AppendNew: the name is appended for every successful result.
AppendAlways(s, x) == Append(s, x)

AppendNew(s, x) == IF InSeq(x, s) THEN s ELSE Append(s, x)

\* The loop of _combine_agent_results over the results of gather.
RECURSIVE CombineLoop(_, _)
CombineLoop(rs, c) ==
    IF rs = <<>> THEN c
    ELSE LET r == Head(rs)
             c2 == IF r.st = "raised"
                   THEN [c EXCEPT !.failed_agents =
                           Append(@, [agent |-> "unknown", error |-> "raised"])]
                   ELSE IF r.success
                   THEN [c EXCEPT
                           !.agent_results = AppendResult(@, r.agent,
                               [task |-> r.task, out |-> r.result]),
                           !.successful_agents = AppendNew(@, r.agent),
                           !.successful_count = @ + 1]
                   ELSE [c EXCEPT !.failed_agents =
                           Append(@, [agent |-> r.agent, error |-> r.result])]
         IN CombineLoop(Tail(rs), c2)

\* Mutant of SuccessRate: the rate over the branches that returned only.
SuccessRateOfReturned(count, n) == [num |-> count, den |-> count]

\* `successful_count / len(results) if results else 0`: the quotient, kept
\* as the fraction num / den (two fractions are the same rate when their
\* cross products are equal).
SuccessRate(count, n) ==
    IF n > 0 THEN [num |-> count, den |-> n] ELSE [num |-> 0, den |-> 1]

\* _combine_agent_results.
CombineAgentResults(rs) ==
    LET c == CombineLoop(rs, [agent_results |-> <<>>,
                              successful_agents |-> <<>>,
                              failed_agents |-> <<>>,
                              total_agents |-> Len(rs),
                              successful_count |-> 0,
                              success_rate |-> [num |-> 0, den |-> 1]])
    IN [c EXCEPT !.success_rate = SuccessRate(c.successful_count, Len(rs))]

\* Mutant of WfCombine: gather hands over its results only when no branch
\* failed.
WfCombineAllSucceeded ==
    /\ wfPc = "gather"
    /\ \A i \in 1 .. Len(branch) : branch[i].st = "done" /\ branch[i].success
    /\ results' = branch
    /\ combined' = CombineAgentResults(branch)
    /\ wfPc' = "sleep"
    /\ WfPublish(<<ProgressEvent(90)>>)
    /\ UNCHANGED <<callVars, agents, overtaken, agentTasks, parallel, branch,
                   words,
                   sent, wfReturn>>

\* Mutant of WfCombine: gather hands over the results there are as soon
\* as every branch has started.
WfCombineFinishedOnly ==
    /\ wfPc = "gather"
    /\ \A i \in 1 .. Len(branch) : branch[i].st # "pending"
    /\ results' = SelectSeq(branch, LAMBDA b : b.st = "done")
    /\ combined' =
          CombineAgentResults(SelectSeq(branch, LAMBDA b : b.st = "done"))
    /\ wfPc' = "sleep"
    /\ WfPublish(<<ProgressEvent(90)>>)
    /\ UNCHANGED <<callVars, agents, overtaken, agentTasks, parallel, branch,
                   words, sent, wfReturn>>

\* gather has every result: _combine_agent_results runs, the progress
\* event is published, and the invocation sleeps for one second.
WfCombine ==
    /\ wfPc = "gather"
    /\ \A i \in 1 .. Len(branch) : branch[i].st \in {"done", "raised"}
    /\ results' = branch
    /\ combined' = CombineAgentResults(branch)
    /\ wfPc' = "sleep"
    /\ WfPublish(<<ProgressEvent(90)>>)
    /\ UNCHANGED <<callVars, agents, overtaken, agentTasks, parallel, branch,
                   words, sent, wfReturn>>

\* The responses list of _generate_final_response: one entry per result
\* that has a recognised text field, agent by agent in insertion order.
RECURSIVE Flatten(_)
Flatten(ss) == IF ss = <<>> THEN <<>> ELSE Head(ss) \o Flatten(Tail(ss))

Responses(c) ==
    Flatten([k \in 1 .. Len(c.agent_results) |->
        LET e == c.agent_results[k]
            withText == SelectSeq(e.results, LAMBDA r : r.out = "text")
        IN [n \in 1 .. Len(withText) |->
              <<Word(e.agent), [w |-> "text", task |-> withText[n].task]>>]])

\* " | ".join(responses).split(): each response is the agent's name and
\* its text (kept as one word).
RECURSIVE Joined(_)
Joined(rsp) ==
    IF rsp = <<>> THEN <<>>
    ELSE IF Len(rsp) = 1 THEN Head(rsp)
    ELSE Head(rsp) \o <<Word("|")>> \o Joined(Tail(rsp))

FinalWords(c) ==
    IF Responses(c) # <<>>
    THEN <<Word("Here's"), Word("everything"), Word("you"),
           Word("requested:")>> \o Joined(Responses(c))
    ELSE <<Word("I've"), Word("processed"), Word("your"), Word("request"),
           Word("across"), Word("multiple"), Word("agents,"),
           Word("though"), Word("some"), Word("may"), Word("not"),
           Word("have"), Word("returned"), Word("detailed"),
           Word("responses.")>>

\* After the sleep: _generate_final_response builds the text, publishes
\* its first word and sleeps.
WfFinalResponse ==
    /\ wfPc = "sleep"
    /\ words' = FinalWords(combined)
    /\ sent' = 1
    /\ wfPc' = "stream"
    /\ WfPublish(<<TokenEvent(FinalWords(combined)[1])>>)
    /\ UNCHANGED <<callVars, agents, overtaken, agentTasks, parallel, branch,
                   results, combined,
                   wfReturn>>

\* Mutant of WfToken: the word published last is published again.
WfTokenRepeated ==
    /\ wfPc = "stream"
    /\ sent < Len(words)
    /\ sent' = sent + 1
    /\ WfPublish(<<TokenEvent(words[sent])>>)
    /\ UNCHANGED <<callVars, agents, overtaken, wfPc, agentTasks, parallel,
                   branch, results, combined, words, wfReturn>>

\* The next word is published, followed by the next sleep.
WfToken ==
    /\ wfPc = "stream"
    /\ sent < Len(words)
    /\ sent' = sent + 1
    /\ WfPublish(<<TokenEvent(words[sent + 1])>>)
    /\ UNCHANGED <<callVars, agents, overtaken, wfPc, agentTasks, parallel,
                   branch, results,
                   combined, words, wfReturn>>

\* After the last word the final response is returned.
WfReturn ==
    /\ wfPc = "stream"
    /\ sent = Len(words)
    /\ wfPc' = "returned"
    /\ wfReturn' = [type |-> "complex_coordination",
                    agent_results |-> combined.agent_results,
                    successful_agents |-> combined.successful_agents,
                    failed_agents |-> combined.failed_agents,
                    successful_count |-> combined.successful_count,
                    total_agents |-> combined.total_agents,
                    success_rate |-> combined.success_rate,
                    final_response |-> words]
    /\ WfPublish(<<ProgressEvent(100)>>)
    /\ UNCHANGED <<callVars, agents, overtaken, agentTasks, parallel, branch,
                   results, combined,
                   words, sent>>

\* ------------------------------------------------ one workflow invocation
CallMaxTasks == 1

Topologies == {"star", "chain", "parallel"}

\* create_default_workflow: the agents in the order they are registered.
DefaultRegistry == <<"PlannerAgent", "WeatherAgent", "CalendarAgent">>

\* The agent lists a workflow is built with: agents.name is the dict key,
\* so the registered names are distinct.
Registries ==
    {r \in SeqsUpTo(Agents, 3) :
        \A i, j \in 1 .. Len(r) : i # j => r[i] # r[j]}

\* A dict is the set of its <<key, value>> entries; a context argument is
\* None or a dict.
NoneContext == [none |-> TRUE, entries |-> {}]

Dict(entries) == [none |-> FALSE, entries |-> entries]

\* The context arguments a caller passes: None, {}, a dict with an entry
\* of the caller's, a dict that has a formatted_response entry.
Contexts ==
    {NoneContext, Dict({}), Dict({<<"user", "caller">>}),
     Dict({<<"formatted_response", "caller">>})}

\* The dict agent.run returns (the text of an agent is named after it).
Result(agent, out) ==
    CASE out = "text" -> {<<"formatted_response", agent>>}
      [] out = "notext" -> {<<"response_text", agent>>}
      [] OTHER -> {<<"error", agent>>}

\* Mutant of Update: entries that are already there are kept.
UpdateKeepsOld(d, r) ==
    d \cup {e \in r : \A f \in d : f[1] # e[1]}

\* dict.update: the entries of r replace those of d with the same key.
Update(d, r) ==
    {e \in d : \A f \in r : f[1] # e[1]} \cup r

\* self.planner: the first PlannerAgent of the list, if there is one.
HasPlanner == InSeq("PlannerAgent", registry)

\* The state before the invocation; the workflow is configured by Init.
CallInit ==
    /\ callPc = "idle"
    /\ parallelize = FALSE
    /\ context = NoneContext
    /\ callerContext = NoneContext
    /\ currentTask = "none"
    /\ currentContext = {}
    /\ runs = <<>>
    /\ callLog = <<>>
    /\ callReturn = [kind |-> "none", value |-> {}]

\* self.command_bus.emit(...), once per entry of kinds: CommandBus.emit.
RECURSIVE PutAll(_, _, _)
PutAll(state, e, n) ==
    IF n = 0 THEN state
    ELSE LET r == PutNowait(state.q, IntakeMaxSize, e)
         IN PutAll([q |-> r.q,
                    accepted |-> IF r.full THEN state.accepted
                                 ELSE Append(state.accepted, e)],
                   e + 1, n - 1)

CallEmit(kinds) ==
    /\ LET r == PutAll([q |-> queue, accepted |-> accepted],
                       ncalls + 1, Len(kinds))
       IN queue' = r.q /\ accepted' = r.accepted
    /\ ncalls' = ncalls + Len(kinds)
    /\ callLog' = callLog \o kinds
    /\ raised' = "none"
    /\ lastAbsent' = FALSE
    /\ UNCHANGED <<subscribers, running, loopPc, chan, waiting, emitTasks,
                   nsubs, delivered, subAt, stopAt>>

\* An agent.run call that has been made and has not returned yet.
Run(path, agent, task, ctx) ==
    [path |-> path, agent |-> agent, task |-> task, ctx |-> ctx,
     out |-> "pending"]

\* The last agent.run call has returned or raised.
Finished(rs, out) == [rs EXCEPT ![Len(rs)].out = out]

\* `except Exception` and `finally` of __call__: the error event, the
\* completed event, and the error result.
CallFails(first) ==
    /\ CallEmit(first \o <<"failed", "completed">>)
    /\ callPc' = "returned"
    /\ callReturn' = [kind |-> "error", value |-> {<<"error", "workflow">>}]

\* `return` inside the try block of __call__, and its `finally`.
CallReturns(first, kind, value) ==
    /\ CallEmit(first \o <<"completed">>)
    /\ callPc' = "returned"
    /\ callReturn' = [kind |-> kind, value |-> value]

\* Mutant of CallStar: the planner is given a task of the orchestrator's.
CallStarRewritten(ctx) ==
    IF ~HasPlanner
    THEN /\ CallFails(<<"started">>)
         /\ UNCHANGED runs
    ELSE /\ runs' = <<Run("star", "PlannerAgent", "rewritten", ctx)>>
         /\ callPc' = "star"
         /\ CallEmit(<<"started">>)
         /\ UNCHANGED callReturn

\* _execute_star_topology up to `await self.planner.run(task, context)`,
\* after the started event of __call__.
CallStar(ctx) ==
    IF ~HasPlanner
    THEN /\ CallFails(<<"started">>)
         /\ UNCHANGED runs
    ELSE /\ runs' = <<Run("star", "PlannerAgent", "raw", ctx)>>
         /\ callPc' = "star"
         /\ CallEmit(<<"started">>)
         /\ UNCHANGED callReturn

\* `context or {}`: the caller's dict when it has entries, else a new one.
ContextOrEmpty(ctx) == IF ctx.none THEN {} ELSE ctx.entries

Aliased(ctx) == ~ctx.none /\ ctx.entries # {}

\* _execute_chain_topology up to the first `await agent.run(...)`.
CallChain(ctx) ==
    /\ currentTask' = "raw"
    /\ currentContext' = ContextOrEmpty(ctx)
    /\ IF registry = <<>>
       THEN /\ CallReturns(<<"started">>, "context", ContextOrEmpty(ctx))
            /\ UNCHANGED runs
       ELSE /\ runs' = <<Run("chain", registry[1], "raw",
                             Dict(ContextOrEmpty(ctx)))>>
            /\ callPc' = "chain"
            /\ CallEmit(<<"started">>)
            /\ UNCHANGED callReturn

\* _execute_parallel_topology up to `await asyncio.gather(...)`.
CallParallel(ctx) ==
    /\ runs' = [k \in 1 .. Len(registry) |->
                  Run("parallel", registry[k], "raw", ctx)]
    /\ callPc' = "parallel"
    /\ CallEmit(<<"started">>)
    /\ UNCHANGED callReturn

\* __call__ up to its first suspension: the fan-out path when
\* should_use_parallel_execution is true, else the started event and the
\* path of the configured topology.
CallStart ==
    /\ callPc = "idle"
    /\ \E par \in BOOLEAN, ctx \in Contexts :
          /\ parallelize' = par
          /\ context' = ctx
          /\ callerContext' = ctx
          /\ IF par
             THEN /\ callPc' = "fanout"
                  /\ UNCHANGED <<runs, callLog, callReturn, currentTask,
                                 currentContext>>
                  /\ UNCHANGED busVars
             ELSE CASE topology = "star" ->
                         CallStar(ctx)
                           /\ UNCHANGED <<currentTask, currentContext>>
                    [] topology = "chain" -> CallChain(ctx)
                    [] OTHER ->
                         CallParallel(ctx)
                           /\ UNCHANGED <<currentTask, currentContext>>
    /\ UNCHANGED <<registry, topology>>
    /\ UNCHANGED extVars
    /\ UNCHANGED <<agents, wfPc, agentTasks, parallel, branch, results,
                   combined, words, sent, wfLog, overtaken, wfReturn>>

\* planner.run returns or raises: its result is returned as it is, an
\* exception becomes the error result.
StarFinish ==
    /\ callPc = "star"
    /\ \E out \in Outcomes :
          /\ runs' = Finished(runs, out)
          /\ IF out = "raise"
             THEN CallFails(<<>>)
             ELSE CallReturns(<<>>, "result", Result("PlannerAgent", out))
    /\ UNCHANGED <<registry, topology, parallelize, context, callerContext,
                   currentTask, currentContext>>
    /\ UNCHANGED extVars
    /\ UNCHANGED <<agents, wfPc, agentTasks, parallel, branch, results,
                   combined, words, sent, wfLog, overtaken, wfReturn>>

\* The agent.run of the chain returns or raises: the context is updated,
\* the task replaced by a formatted_response, and the next agent is run
\* or the context returned.
ChainStep ==
    /\ callPc = "chain"
    /\ \E out \in Outcomes :
          LET k == Len(runs)
              agent == registry[k]
              ctx2 == Update(currentContext, Result(agent, out))
              task2 == IF out = "text" THEN agent ELSE currentTask
          IN IF out = "raise"
             THEN /\ runs' = Finished(runs, out)
                  /\ CallFails(<<>>)
                  /\ UNCHANGED <<currentTask, currentContext, callerContext>>
             ELSE /\ currentContext' = ctx2
                  /\ currentTask' = task2
                  /\ callerContext' = IF Aliased(context) THEN Dict(ctx2)
                                      ELSE callerContext
                  /\ IF k < Len(registry)
                     THEN /\ runs' = Append(Finished(runs, out),
                                       Run("chain", registry[k + 1], task2,
                                           Dict(ctx2)))
                          /\ UNCHANGED <<callPc, callLog, callReturn>>
                          /\ UNCHANGED busVars
                     ELSE /\ runs' = Finished(runs, out)
                          /\ CallReturns(<<>>, "context", ctx2)
    /\ UNCHANGED <<registry, topology, parallelize, context>>
    /\ UNCHANGED extVars
    /\ UNCHANGED <<agents, wfPc, agentTasks, parallel, branch, results,
                   combined, words, sent, wfLog, overtaken, wfReturn>>

\* gather of the parallel topology has every result: combined_result,
\* with parallel_results[agent] for an agent that returned and an errors
\* entry for one that raised.
ParallelFinish ==
    /\ callPc = "parallel"
    /\ \E outs \in [1 .. Len(registry) -> Outcomes] :
          /\ runs' = [k \in 1 .. Len(runs) |-> [runs[k] EXCEPT !.out = outs[k]]]
          /\ CallReturns(<<>>, "parallel",
                {<<registry[k], outs[k]>> :
                    k \in {j \in 1 .. Len(registry) : outs[j] # "raise"}}
                \cup {<<"errors", registry[k]>> :
                    k \in {j \in 1 .. Len(registry) : outs[j] = "raise"}}
                \cup {<<"success",
                        IF \E j \in 1 .. Len(registry) : outs[j] = "raise"
                        THEN "False" ELSE "True">>})
    /\ UNCHANGED <<registry, topology, parallelize, context, callerContext,
                   currentTask, currentContext>>
    /\ UNCHANGED extVars
    /\ UNCHANGED <<agents, wfPc, agentTasks, parallel, branch, results,
                   combined, words, sent, wfLog, overtaken, wfReturn>>

\* An exception leaves _execute_complex_task: `return await
\* self._execute_complex_task(...)` stands before the try block of
\* __call__, so the exception leaves __call__ as well.
CallPropagates ==
    /\ callPc' = "raised"
    /\ UNCHANGED <<registry, topology, parallelize, context, callerContext,
                   currentTask, currentContext, runs, callLog, callReturn>>
    /\ UNCHANGED extVars

\* The fan-out path of the invocation: _execute_complex_task.
CallWfDispatch ==
    /\ callPc = "fanout"
    /\ WfDispatch
    /\ Len(agentTasks') <= CallMaxTasks

\* parse_complex_task raises: the exception leaves _execute_complex_task
\* after the speech and status events.
WfDecomposerRaises ==
    /\ callPc = "fanout"
    /\ wfPc = "idle"
    /\ wfPc' = "raised"
    /\ WfPublish(<<SpeechEvent, StatusEvent>>)
    /\ CallPropagates
    /\ UNCHANGED <<agents, overtaken, agentTasks, parallel, branch,
                   results, combined, words, sent, wfReturn>>

\* _combine_agent_results raises on the results of gather (a result that
\* is neither an Exception nor a dict): the exception leaves
\* _execute_complex_task.
WfCombineRaises ==
    /\ wfPc = "gather"
    /\ \A i \in 1 .. Len(branch) : branch[i].st \in {"done", "raised"}
    /\ results' = branch
    /\ wfPc' = "raised"
    /\ CallPropagates
    /\ UNCHANGED <<agents, overtaken, agentTasks, parallel, branch,
                   combined, words, sent, wfLog, wfReturn>>
    /\ UNCHANGED busVars

\* _generate_final_response raises while it reads the results (a
\* weather_data entry that is not a dict).
WfFinalResponseRaises ==
    /\ wfPc = "sleep"
    /\ wfPc' = "raised"
    /\ CallPropagates
    /\ UNCHANGED <<agents, overtaken, agentTasks, parallel, branch,
                   results, combined, words, sent, wfLog, wfReturn>>
    /\ UNCHANGED busVars

\* ------------------------------------------------------- strings of the router
\* A Python str is the sequence of its characters, each a one-character
\* string.  The characters the router tells apart:
Whitespace == {" ", "\t", "\n"}

UpperCase ==
    <<"A", "B", "C", "D", "E", "F", "G", "H", "I", "J", "K", "L", "M",
      "N", "O", "P", "Q", "R", "S", "T", "U", "V", "W", "X", "Y", "Z">>

LowerCase ==
    <<"a", "b", "c", "d", "e", "f", "g", "h", "i", "j", "k", "l", "m",
      "n", "o", "p", "q", "r", "s", "t", "u", "v", "w", "x", "y", "z">>

Digits == {"0", "1", "2", "3", "4", "5", "6", "7", "8", "9"}

UpperLetters == {UpperCase[k] : k \in DOMAIN UpperCase}

LowerLetters == {LowerCase[k] : k \in DOMAIN LowerCase}

\* str.isupper() and [A-Z], [a-z] for one character.
IsUpper(c) == c \in UpperLetters

IsLower(c) == c \in LowerLetters

WordChars == UpperLetters \cup LowerLetters \cup Digits \cup {"_"}

\* \w of the re module.
IsWordChar(c) == c \in WordChars

\* The lower-case letter of each upper-case letter.
ToLower ==
    [c \in UpperLetters |->
       LowerCase[CHOOSE k \in DOMAIN UpperCase : UpperCase[k] = c]]

LowerChar(c) == IF c \in UpperLetters THEN ToLower[c] ELSE c

\* str.lower()
Lower(s) == [k \in DOMAIN s |-> LowerChar(s[k])]

\* s[i:].startswith(pat), for a position i of s counted from 1.
MatchesAt(s, i, pat) ==
    /\ i >= 1
    /\ i + Len(pat) - 1 <= Len(s)
    /\ \A k \in DOMAIN pat : s[i + k - 1] = pat[k]

\* `pat in s`
Contains(s, pat) == \E i \in 1 .. Len(s) - Len(pat) + 1 : MatchesAt(s, i, pat)

\* any(word in s for word in pats)
ContainsAny(s, pats) == \E k \in DOMAIN pats : Contains(s, pats[k])

Least(S) == CHOOSE k \in S : \A j \in S : k <= j

\* str.strip()
Strip(s) ==
    IF \A k \in DOMAIN s : s[k] \in Whitespace THEN <<>>
    ELSE SubSeq(s,
                CHOOSE k \in DOMAIN s :
                   /\ s[k] \notin Whitespace
                   /\ \A j \in 1 .. k - 1 : s[j] \in Whitespace,
                CHOOSE k \in DOMAIN s :
                   /\ s[k] \notin Whitespace
                   /\ \A j \in k + 1 .. Len(s) : s[j] \in Whitespace)

\* The position after the run of characters of `class` that starts at i
\* (i itself when s[i] is not in the class): a greedy `[class]*`.
RunEnd(s, i, class) ==
    LET other == {k \in i .. Len(s) : s[k] \notin class}
    IN IF other = {} THEN Len(s) + 1 ELSE Least(other)

\* The position after a match at i of `[punct]` or of `\s+word\s+` for
\* one of the words, the alternatives tried in this order and without
\* regard to case; 0 when none matches at i.
DelimiterEnd(s, i, punct, delimWords) ==
    IF s[i] \in punct THEN i + 1
    ELSE IF s[i] \notin Whitespace THEN 0
    ELSE LET j == RunEnd(s, i, Whitespace)
             hits == {k \in DOMAIN delimWords :
                        /\ j + Len(delimWords[k]) <= Len(s)
                        /\ \A n \in DOMAIN delimWords[k] :
                              LowerChar(s[j + n - 1]) = delimWords[k][n]
                        /\ s[j + Len(delimWords[k])] \in Whitespace}
         IN IF hits = {} THEN 0
            ELSE RunEnd(s, j + Len(delimWords[Least(hits)]), Whitespace)

\* re.split of s from position i on, the pending piece starting at
\* `start`: the pieces of s between the matches, leftmost match first.
RECURSIVE ReSplit(_, _, _, _, _)
ReSplit(s, i, start, punct, delimWords) ==
    IF i > Len(s) THEN <<SubSeq(s, start, Len(s))>>
    ELSE LET e == DelimiterEnd(s, i, punct, delimWords)
         IN IF e = 0 THEN ReSplit(s, i + 1, start, punct, delimWords)
            ELSE <<SubSeq(s, start, i - 1)>>
                   \o ReSplit(s, e, e, punct, delimWords)

\* ------------------------------------------------------------ the task router

KwWeather == <<"w", "e", "a", "t", "h", "e", "r">>

KwTemperature == <<"t", "e", "m", "p", "e", "r", "a", "t", "u", "r", "e">>

KwForecast == <<"f", "o", "r", "e", "c", "a", "s", "t">>

KwClimate == <<"c", "l", "i", "m", "a", "t", "e">>

KwCalendar == <<"c", "a", "l", "e", "n", "d", "a", "r">>

KwSchedule == <<"s", "c", "h", "e", "d", "u", "l", "e">>

KwMeeting == <<"m", "e", "e", "t", "i", "n", "g">>

KwAppointment == <<"a", "p", "p", "o", "i", "n", "t", "m", "e", "n", "t">>

KwEvent == <<"e", "v", "e", "n", "t">>

KwPlan == <<"p", "l", "a", "n">>

KwHelp == <<"h", "e", "l", "p">>

KwTell == <<"t", "e", "l", "l">>

KwJoke == <<"j", "o", "k", "e">>

KwStory == <<"s", "t", "o", "r", "y">>

KwAdvice == <<"a", "d", "v", "i", "c", "e">>

\* The keyword lists of route_task, parse_complex_task and agent_keywords.
WeatherKeywords == <<KwWeather, KwTemperature, KwForecast, KwClimate>>

CalendarKeywords ==
    <<KwCalendar, KwSchedule, KwMeeting, KwAppointment, KwEvent>>

GeneralKeywords == <<KwPlan, KwHelp, KwTell, KwJoke, KwStory, KwAdvice>>

\* agent_keywords, in the order of the dict.
AgentKeywords == <<WeatherKeywords, CalendarKeywords, GeneralKeywords>>

WordAnd == <<"a", "n", "d">>

WordAlso == <<"a", "l", "s", "o">>

WordPlus == <<"p", "l", "u", "s">>

WordThen == <<"t", "h", "e", "n">>

WordOr == <<"o", "r">>

\* multi_indicators of should_use_parallel_execution.
MultiIndicators ==
    <<<<"-">>, <<",">>, <<";">>, <<" ">> \o WordAnd \o <<" ">>,
      <<" ">> \o WordAlso \o <<" ">>, <<" ">> \o WordPlus \o <<" ">>,
      <<" ">> \o WordThen \o <<" ">>>>

\* detected_categories of should_use_parallel_execution.
DetectedCategories(taskLower) ==
    {k \in DOMAIN AgentKeywords : ContainsAny(taskLower, AgentKeywords[k])}

\* TaskRouter.should_use_parallel_execution
ShouldUseParallelExecution(t) ==
    LET taskLower == Lower(t)
        hasMultipleParts == ContainsAny(taskLower, MultiIndicators)
    IN Cardinality(DetectedCategories(taskLower)) > 1 \/ hasMultipleParts

\* The delimiters of _split_task_parts:
\* [-,;]|(?:\s+and\s+)|(?:\s+also\s+)|(?:\s+plus\s+)|(?:\s+then\s+)
SplitPunctuation == {"-", ",", ";"}

SplitWords == <<WordAnd, WordAlso, WordPlus, WordThen>>

\* TaskRouter._split_task_parts
SplitTaskParts(t) ==
    LET parts == ReSplit(t, 1, 1, SplitPunctuation, SplitWords)
        cleaned == [k \in DOMAIN parts |-> Strip(parts[k])]
    IN SelectSeq(cleaned, LAMBDA c : Len(c) > 3)

\* TaskRouter._is_multi_location_weather_query
IsMultiLocationWeatherQuery(t) ==
    LET taskLower == Lower(t)
    IN /\ ContainsAny(taskLower, WeatherKeywords)
       /\ Contains(t, <<",">>)
       /\ ContainsAny(taskLower, <<<<" ">> \o WordAnd \o <<" ">>,
                                   <<" ">> \o WordOr \o <<" ">>>>)

WordWhats == <<"w", "h", "a", "t", "'", "s">>

WordCheck == <<"c", "h", "e", "c", "k">>

WordIn == <<"i", "n">>

WordFor == <<"f", "o", "r">>

WordAt == <<"a", "t">>

WordFrom == <<"f", "r", "o", "m">>

WordThe == <<"t", "h", "e">>

WordA == <<"a">>

WordAn == <<"a", "n">>

\* The words _extract_multiple_locations removes, in the order of its loop.
RemovedWords ==
    <<WordWhats, KwWeather, KwTemperature, KwForecast, KwClimate, WordCheck,
      WordIn, WordFor, WordAt>>

\* A match of \bword\b at position i of s, without regard to case.
WordAtPosition(s, i, word) ==
    /\ i + Len(word) - 1 <= Len(s)
    /\ \A k \in DOMAIN word : LowerChar(s[i + k - 1]) = word[k]
    /\ (i = 1 \/ ~IsWordChar(s[i - 1]))
    /\ (i + Len(word) > Len(s) \/ ~IsWordChar(s[i + Len(word)]))

\* re.sub(r'\bword\b', ' ', s, flags=re.IGNORECASE), from position i on.
RECURSIVE RemoveWord(_, _, _)
RemoveWord(s, i, word) ==
    IF i > Len(s) THEN <<>>
    ELSE IF WordAtPosition(s, i, word)
         THEN <<" ">> \o RemoveWord(s, i + Len(word), word)
         ELSE <<s[i]>> \o RemoveWord(s, i + 1, word)

\* The loop over the removed words: the first n of them are removed.
RECURSIVE RemoveWords(_, _)
RemoveWords(s, n) ==
    IF n = 0 THEN s
    ELSE RemoveWord(RemoveWords(s, n - 1), 1, RemovedWords[n])

\* str.rstrip('?')
RStripQuestion(s) ==
    IF \A k \in DOMAIN s : s[k] = "?" THEN <<>>
    ELSE SubSeq(s, 1, CHOOSE k \in DOMAIN s :
                         /\ s[k] # "?"
                         /\ \A j \in k + 1 .. Len(s) : s[j] = "?")

\* re.sub(r'^\s*(the|a|an)\s+', '', s, flags=re.IGNORECASE)
RemoveArticle(s) ==
    LET j == RunEnd(s, 1, Whitespace)
        articles == <<WordThe, WordA, WordAn>>
        hits == {k \in DOMAIN articles :
                   /\ j + Len(articles[k]) <= Len(s)
                   /\ \A n \in DOMAIN articles[k] :
                         LowerChar(s[j + n - 1]) = articles[k][n]
                   /\ s[j + Len(articles[k])] \in Whitespace}
    IN IF hits = {} THEN s
       ELSE SubSeq(s, RunEnd(s, j + Len(articles[Least(hits)]), Whitespace),
                   Len(s))

\* re.sub(r'\s+', ' ', s), from position i on.
RECURSIVE NormalizeWhitespace(_, _)
NormalizeWhitespace(s, i) ==
    IF i > Len(s) THEN <<>>
    ELSE IF s[i] \in Whitespace
         THEN <<" ">> \o NormalizeWhitespace(s, RunEnd(s, i, Whitespace))
         ELSE <<s[i]>> \o NormalizeWhitespace(s, i + 1)

\* The delimiters of _extract_multiple_locations:
\* [,;]|(?:\s+and\s+)|(?:\s+or\s+)
LocationPunctuation == {",", ";"}

LocationWords == <<WordAnd, WordOr>>

\* The body of the loop of _extract_multiple_locations for one part: the
\* locations it appends.
CleanLocation(part) ==
    LET location == Strip(RStripQuestion(Strip(part)))
        named == Strip(NormalizeWhitespace(RemoveArticle(location), 1))
    IN IF Len(location) > 1 /\ named # <<>> /\ IsUpper(named[1])
       THEN <<named>> ELSE <<>>

RECURSIVE ConcatAll(_)
ConcatAll(ss) == IF ss = <<>> THEN <<>> ELSE Head(ss) \o ConcatAll(Tail(ss))

\* TaskRouter._extract_multiple_locations
ExtractMultipleLocations(t) ==
    LET parts == ReSplit(RemoveWords(t, Len(RemovedWords)), 1, 1,
                         LocationPunctuation, LocationWords)
    IN ConcatAll([k \in DOMAIN parts |-> CleanLocation(parts[k])])

GetWeatherInformationFor ==
    <<"G", "e", "t", " ", "w", "e", "a", "t", "h", "e", "r", " ", "i", "n",
      "f", "o", "r", "m", "a", "t", "i", "o", "n", " ", "f", "o", "r", " ">>

GetCurrentWeatherInformation ==
    <<"G", "e", "t", " ", "c", "u", "r", "r", "e", "n", "t", " ", "w", "e",
      "a", "t", "h", "e", "r", " ", "i", "n", "f", "o", "r", "m", "a", "t",
      "i", "o", "n">>

ScheduleANewMeeting ==
    <<"S", "c", "h", "e", "d", "u", "l", "e", " ", "a", " ", "n", "e", "w",
      " ", "m", "e", "e", "t", "i", "n", "g", " ", "o", "r", " ", "a", "p",
      "p", "o", "i", "n", "t", "m", "e", "n", "t">>

CheckMySchedule ==
    <<"C", "h", "e", "c", "k", " ", "m", "y", " ", "s", "c", "h", "e", "d",
      "u", "l", "e", " ", "a", "n", "d", " ", "c", "a", "l", "e", "n", "d",
      "a", "r">>

HandleMeetingRequest ==
    <<"H", "a", "n", "d", "l", "e", " ", "m", "e", "e", "t", "i", "n", "g",
      "-", "r", "e", "l", "a", "t", "e", "d", " ", "r", "e", "q", "u", "e",
      "s", "t", ":", " ">>

CalendarTaskPrefix ==
    <<"C", "a", "l", "e", "n", "d", "a", "r", " ", "t", "a", "s", "k", ":",
      " ">>

\* len(s.split()): the number of runs of characters that are not whitespace.
WordCount(s) ==
    Cardinality({k \in DOMAIN s :
                   s[k] \notin Whitespace
                     /\ (k = 1 \/ s[k - 1] \in Whitespace)})

\* The position after a match of [A-Z][a-z]+ at i, or 0.
CapitalizedEnd(s, i) ==
    IF i + 1 <= Len(s) /\ IsUpper(s[i]) /\ IsLower(s[i + 1])
    THEN RunEnd(s, i + 1, LowerLetters)
    ELSE 0

\* The position after a match of (?:\s+[A-Z][a-z]+)* at e.
RECURSIVE CapitalizedMore(_, _)
CapitalizedMore(s, e) ==
    IF e <= Len(s) /\ s[e] \in Whitespace
    THEN LET n == CapitalizedEnd(s, RunEnd(s, e, Whitespace))
         IN IF n = 0 THEN e ELSE CapitalizedMore(s, n)
    ELSE e

\* The group of a match at i of `prefix\s+([A-Z][a-z]+(?:\s+[A-Z][a-z]+)*)`,
\* with \b before the prefix when `bounded`; <<>> when there is no match.
LocationMatch(s, i, prefix, bounded) ==
    LET j == i + Len(prefix)
        g == RunEnd(s, j, Whitespace)
    IN IF /\ MatchesAt(s, i, prefix)
          /\ (~bounded \/ i = 1 \/ ~IsWordChar(s[i - 1]))
          /\ j <= Len(s) /\ s[j] \in Whitespace
          /\ CapitalizedEnd(s, g) # 0
       THEN SubSeq(s, g, CapitalizedMore(s, CapitalizedEnd(s, g)) - 1)
       ELSE <<>>

\* location_patterns of _extract_weather_task: (?:from|in) is two prefixes
\* tried at each position.
LocationPatterns ==
    <<[prefixes |-> <<WordIn>>, bounded |-> TRUE],
      [prefixes |-> <<WordFor>>, bounded |-> TRUE],
      [prefixes |-> <<WordAt>>, bounded |-> TRUE],
      [prefixes |-> <<WordFrom, WordIn>>, bounded |-> FALSE]>>

\* match.group(1) of re.search(pattern, s): the leftmost match, at it the
\* first alternative that matches; <<>> when there is none.
SearchLocation(s, pattern) ==
    LET at(i) == {k \in DOMAIN pattern.prefixes :
                    LocationMatch(s, i, pattern.prefixes[k],
                                  pattern.bounded) # <<>>}
        where == {i \in DOMAIN s : at(i) # {}}
        first == Least(where)
    IN IF where = {} THEN <<>>
       ELSE LocationMatch(s, first, pattern.prefixes[Least(at(first))],
                          pattern.bounded)

\* TaskRouter._extract_weather_task
ExtractWeatherTask(part, fullTask) ==
    LET partCleaned == Strip(RStripQuestion(Strip(part)))
        s == fullTask \o <<" ">> \o part
        found == {k \in DOMAIN LocationPatterns :
                    SearchLocation(s, LocationPatterns[k]) # <<>>}
    IN IF /\ partCleaned # <<>>
          /\ WordCount(partCleaned) <= 3
          /\ IsUpper(partCleaned[1])
       THEN GetWeatherInformationFor \o partCleaned
       ELSE IF found # {}
            THEN GetWeatherInformationFor
                   \o SearchLocation(s, LocationPatterns[Least(found)])
            ELSE GetCurrentWeatherInformation

\* TaskRouter._extract_calendar_task
ExtractCalendarTask(part, fullTask) ==
    LET partLower == Lower(part)
    IN IF /\ Contains(partLower, KwSchedule)
          /\ (Contains(partLower, KwMeeting)
                \/ Contains(partLower, KwAppointment))
       THEN ScheduleANewMeeting
       ELSE IF Contains(partLower, KwSchedule) THEN CheckMySchedule
       ELSE IF Contains(partLower, KwMeeting)
            THEN HandleMeetingRequest \o part
            ELSE CalendarTaskPrefix \o part

\* agent_tasks before any key is set.
NoAgentTasks == [keys |-> <<>>, tasks |-> [a \in Agents |-> <<>>]]

\* `if agent not in agent_tasks: agent_tasks[agent] = []` and
\* `agent_tasks[agent].append(subTask)`
AddSubTask(agentTasksOf, agent, subTask) ==
    [keys |-> IF InSeq(agent, agentTasksOf.keys) THEN agentTasksOf.keys
              ELSE Append(agentTasksOf.keys, agent),
     tasks |-> [agentTasksOf.tasks EXCEPT ![agent] = Append(@, subTask)]]

\* Mutant of RoutePart: a fragment with a calendar keyword goes to the
\* calendar agent whatever else it holds.
RoutePartCalendarFirst(part) ==
    LET partLower == Strip(Lower(part))
    IN IF ContainsAny(partLower, CalendarKeywords) THEN "CalendarAgent"
       ELSE IF ContainsAny(partLower, WeatherKeywords) THEN "WeatherAgent"
       ELSE "PlannerAgent"

\* The if/elif/else of the loop of parse_complex_task: the agent of a part.
RoutePart(part) ==
    LET partLower == Strip(Lower(part))
    IN IF ContainsAny(partLower, WeatherKeywords) THEN "WeatherAgent"
       ELSE IF ContainsAny(partLower, CalendarKeywords) THEN "CalendarAgent"
       ELSE "PlannerAgent"

\* What is appended for a part: the sub-task made of it for its agent.
SubTaskOf(part, fullTask) ==
    CASE RoutePart(part) = "WeatherAgent" -> ExtractWeatherTask(part, fullTask)
      [] RoutePart(part) = "CalendarAgent" ->
            ExtractCalendarTask(part, fullTask)
      [] OTHER -> Strip(part)

\* The loop of parse_complex_task over the first n parts.
RECURSIVE RouteParts(_, _, _)
RouteParts(parts, n, fullTask) ==
    IF n = 0 THEN NoAgentTasks
    ELSE LET before == RouteParts(parts, n - 1, fullTask)
         IN IF Strip(Lower(parts[n])) = <<>> THEN before
            ELSE AddSubTask(before, RoutePart(parts[n]),
                            SubTaskOf(parts[n], fullTask))

\* TaskRouter.parse_complex_task
ParseComplexTaskOf(t) ==
    IF IsMultiLocationWeatherQuery(t)
    THEN LET locations == ExtractMultipleLocations(t)
         IN [keys |-> <<"WeatherAgent">>,
             tasks |-> [NoAgentTasks.tasks EXCEPT !["WeatherAgent"] =
                          [k \in DOMAIN locations |->
                             GetWeatherInformationFor \o locations[k]]]]
    ELSE LET parts == SplitTaskParts(t)
             routed == RouteParts(parts, Len(parts), t)
         IN IF routed.keys = <<>>
            THEN AddSubTask(NoAgentTasks, "PlannerAgent", t)
            ELSE routed

\* --------------------------------------------------- the router and its inputs
\* The fragments and separators the tasks given to the router are made of.
FragWeather ==
    <<"C", "h", "e", "c", "k", " ", "w", "e", "a", "t", "h", "e", "r", " ",
      "i", "n", " ", "S", "e", "a", "t", "t", "l", "e">>

FragCalendar ==
    <<"s", "c", "h", "e", "d", "u", "l", "e", " ", "a", " ", "m", "e", "e",
      "t", "i", "n", "g", " ", "a", "t", " ", "2", "p", "m">>

FragGeneral ==
    <<"t", "e", "l", "l", " ", "m", "e", " ", "a", " ", "j", "o", "k", "e">>

FragBoth ==
    <<"w", "e", "a", "t", "h", "e", "r", " ", "e", "v", "e", "n", "t">>

FragTwo == <<"o", "k">>

FragFour == <<"o", "k", "a", "y">>

Fragments ==
    {FragWeather, FragCalendar, FragGeneral, FragBoth, FragTwo, FragFour}

\* Hyphen, comma, semicolon and the four words between spaces; the word
\* "and" in capitals and between tabs; a space and the word "or", which
\* are not delimiters.
Separators ==
    {<<" ", "-", " ">>, <<",", " ">>, <<";">>,
     <<" ">> \o WordAnd \o <<" ">>, <<" ">> \o WordAlso \o <<" ">>,
     <<" ">> \o WordPlus \o <<" ">>, <<" ">> \o WordThen \o <<" ">>,
     <<" ", "A", "N", "D", " ">>, <<"\t">> \o WordAnd \o <<"\t">>,
     <<" ">>, <<" ">> \o WordOr \o <<" ">>}

InnerSeparators ==
    {<<" ", "-", " ">>, <<" ">> \o WordAnd \o <<" ">>, <<" ">>}

\* Tasks of one, two and three fragments.
FragmentTasks ==
    Fragments
      \cup {f \o s \o g : f \in Fragments, g \in Fragments, s \in Separators}
      \cup {f \o s \o g \o r \o h :
              f \in Fragments, g \in Fragments, h \in Fragments,
              s \in InnerSeparators, r \in InnerSeparators}

\* The lead-ins, locations and conjunctions of the weather queries for
\* several locations.
LeadCheck ==
    <<"C", "h", "e", "c", "k", " ", "w", "e", "a", "t", "h", "e", "r", " ",
      "i", "n", " ">>

LeadWhatIs ==
    <<"w", "h", "a", "t", " ", "i", "s", " ", "t", "h", "e", " ", "w", "e",
      "a", "t", "h", "e", "r", " ", "i", "n", " ">>

LeadFor == <<"W", "e", "a", "t", "h", "e", "r", " ", "f", "o", "r", " ">>

Tokyo == <<"T", "o", "k", "y", "o">>

London == <<"L", "o", "n", "d", "o", "n">>

Paris == <<"P", "a", "r", "i", "s">>

Leads == {LeadCheck, LeadWhatIs, LeadFor}

Locations == {Tokyo, London, Paris}

Conjunctions ==
    {<<",", " ">> \o WordAnd \o <<" ">>, <<" ">> \o WordAnd \o <<" ">>,
     <<" ">> \o WordOr \o <<" ">>}

Endings == {<<>>, <<"?">>}

\* "<lead> <location>, <location><conjunction><location><ending>"
LocationTask(lead, a, b, conj, c, ending) ==
    lead \o a \o <<",", " ">> \o b \o conj \o c \o ending

LocationTasks ==
    {LocationTask(lead, a, b, conj, c, ending) :
       lead \in Leads, a \in Locations, b \in Locations, c \in Locations,
       conj \in Conjunctions, ending \in Endings}

RouterTasks == FragmentTasks \cup LocationTasks

\* No router method has been called.
RouterIdle ==
    /\ rawTask = <<>>
    /\ routerPc = {}
    /\ shouldParallel = FALSE
    /\ parsedTasks = NoAgentTasks

\* A router and the task its methods are about to be called with.
RouterInit ==
    /\ rawTask \in RouterTasks
    /\ routerPc = {}
    /\ shouldParallel = FALSE
    /\ parsedTasks = NoAgentTasks

\* router.should_use_parallel_execution(task)
RouterShouldUseParallel ==
    /\ "should" \notin routerPc
    /\ shouldParallel' = ShouldUseParallelExecution(rawTask)
    /\ routerPc' = routerPc \cup {"should"}
    /\ UNCHANGED <<rawTask, parsedTasks>>
    /\ UNCHANGED <<busVars, fanoutVars, invocationVars, dispatcherVars,
                   batchVars, hostVars>>

\* router.parse_complex_task(task)
RouterParse ==
    /\ "parse" \notin routerPc
    /\ parsedTasks' = ParseComplexTaskOf(rawTask)
    /\ routerPc' = routerPc \cup {"parse"}
    /\ UNCHANGED <<rawTask, shouldParallel>>
    /\ UNCHANGED <<busVars, fanoutVars, invocationVars, dispatcherVars,
                   batchVars, hostVars>>

\* ------------------------------------------------------- the audio dispatcher
\* The text of the dispatcher is a sequence of characters as well; each
\* character carries a history field `at`, its position in the stream of
\* all the text that has arrived (0 for a character the dispatcher added),
\* which the code does not have and no operator below looks at.
Terminators == {".", "!", "?"}

\* `if len(self.text_buffer) > 100`
Threshold == 100

\* The characters of a text that arrives after `from` others.
Arriving(text, from) ==
    [k \in DOMAIN text |-> [ch |-> text[k], at |-> from + k]]

\* The " " of `text + " "` and of `" ".join(...)`.
Space == [ch |-> " ", at |-> 0]

\* The Python str of a text.
Chars(s) == [k \in DOMAIN s |-> s[k].ch]

\* str.strip()
StripText(s) ==
    IF \A k \in DOMAIN s : s[k].ch \in Whitespace THEN <<>>
    ELSE SubSeq(s,
                CHOOSE k \in DOMAIN s :
                   /\ s[k].ch \notin Whitespace
                   /\ \A j \in 1 .. k - 1 : s[j].ch \in Whitespace,
                CHOOSE k \in DOMAIN s :
                   /\ s[k].ch \notin Whitespace
                   /\ \A j \in k + 1 .. Len(s) : s[j].ch \in Whitespace)

\* match.end() of SENTENCE_END_PATTERN.search(s), as a position counted
\* from 1: the position after the first `[.!?]\s+`; 0 when there is none.
SentenceEnd(s) ==
    LET ends == {i \in 1 .. Len(s) - 1 :
                   s[i].ch \in Terminators /\ s[i + 1].ch \in Whitespace}
        rest == {k \in DOMAIN s : k > Least(ends) /\ s[k].ch \notin Whitespace}
    IN IF ends = {} THEN 0
       ELSE IF rest = {} THEN Len(s) + 1 ELSE Least(rest)

\* The loop of split_into_sentences on `remaining`.
RECURSIVE SplitRemaining(_)
SplitRemaining(remaining) ==
    IF remaining = <<>> THEN <<>>
    ELSE LET e == SentenceEnd(remaining)
             sentence == StripText(SubSeq(remaining, 1, e - 1))
         IN IF e = 0
            THEN IF StripText(remaining) # <<>>
                 THEN <<StripText(remaining)>> ELSE <<>>
            ELSE (IF sentence # <<>> THEN <<sentence>> ELSE <<>>)
                   \o SplitRemaining(SubSeq(remaining, e, Len(remaining)))

\* bus.split_into_sentences
SplitIntoSentences(text) ==
    IF StripText(text) = <<>> THEN <<>> ELSE SplitRemaining(text)

\* What a send to the sink can do when there is a connection: the text is
\* sent, send raises ConnectionClosed, or send raises another exception.
SendOutcomes == {"sent", "closed", "error"}

\* The dispatcher as _send_to_tts_worker sees and changes it: the
\* connection, the chunks the sink has accepted, and the sends attempted
\* in the running call.
Sending(conn, log, tried) == [conn |-> conn, log |-> log, tried |-> tried]

\* AudioDispatcher._send_to_tts_worker(chunk), the send doing `out`.
SendToTtsWorker(st, chunk, out) ==
    IF StripText(chunk) = <<>> THEN st
    ELSE IF st.conn = "none"
         THEN Sending(st.conn, st.log,
                      Append(st.tried, [chunk |-> chunk, out |-> "absent"]))
    ELSE CASE out = "sent" ->
                 Sending(st.conn, Append(st.log, chunk),
                         Append(st.tried, [chunk |-> chunk, out |-> out]))
           [] out = "closed" ->
                 Sending("none", st.log,
                         Append(st.tried, [chunk |-> chunk, out |-> out]))
           [] OTHER ->
                 Sending(st.conn, st.log,
                         Append(st.tried, [chunk |-> chunk, out |-> out]))

\* Mutant of SendSentences: the sentences are sent from the last to the
\* first.
RECURSIVE SendSentencesBackwards(_, _, _, _)
SendSentencesBackwards(st, sentences, n, outs) ==
    IF n = 0 THEN st
    ELSE SendToTtsWorker(SendSentencesBackwards(st, sentences, n - 1, outs),
                         StripText(sentences[Len(sentences) - n]), outs[n])

\* `for sentence in sentences[:-1]: await self._send_to_tts_worker(...)`,
\* for the first n sentences.
RECURSIVE SendSentences(_, _, _, _)
SendSentences(st, sentences, n, outs) ==
    IF n = 0 THEN st
    ELSE SendToTtsWorker(SendSentences(st, sentences, n - 1, outs),
                         StripText(sentences[n]), outs[n])

\* text_buffer after `if sentences: self.text_buffer = ...`
BufferAfter(accumulated, sentences) ==
    IF sentences = <<>> THEN accumulated
    ELSE IF Len(sentences) = 1 THEN sentences[1] ELSE <<>>

\* Mutant of OverThreshold: a buffer of exactly the threshold is sent too.
OverThresholdInclusive(buffer) == Len(buffer) >= Threshold

\* `len(self.text_buffer) > 100`
OverThreshold(buffer) == Len(buffer) > Threshold

\* The number of sends AudioDispatcher._process_speech_text makes for
\* the accumulated text.
SendsFor(accumulated) ==
    LET sentences == SplitIntoSentences(accumulated)
    IN (IF sentences = <<>> THEN 0 ELSE Len(sentences) - 1)
         + (IF OverThreshold(BufferAfter(accumulated, sentences)) THEN 1 ELSE 0)

\* AudioDispatcher._process_speech_text(text) on buffer and st, send k
\* doing outs[k]: the buffer and the sending state it leaves, and the
\* buffer before the threshold is looked at.
ProcessSpeechText(buffer, st, text, outs) ==
    LET accumulated == buffer \o text \o <<Space>>
        sentences == SplitIntoSentences(accumulated)
        whole == IF sentences = <<>> THEN 0 ELSE Len(sentences) - 1
        st1 == SendSentences(st, sentences, whole, outs)
        pending == BufferAfter(accumulated, sentences)
    IN IF OverThreshold(pending)
       THEN [buffer |-> <<>>, pending |-> pending,
             st |-> SendToTtsWorker(st1, StripText(pending), outs[whole + 1])]
       ELSE [buffer |-> pending, pending |-> pending, st |-> st1]

\* Mutant of FlushBuffer: the buffer is sent and kept.
FlushBufferKept(buffer, st, out) ==
    IF StripText(buffer) # <<>>
    THEN [buffer |-> buffer, st |-> SendToTtsWorker(st, StripText(buffer), out)]
    ELSE [buffer |-> buffer, st |-> st]

\* AudioDispatcher.flush_buffer(), the send doing `out`.
FlushBuffer(buffer, st, out) ==
    IF StripText(buffer) # <<>>
    THEN [buffer |-> <<>>, st |-> SendToTtsWorker(st, StripText(buffer), out)]
    ELSE [buffer |-> buffer, st |-> st]

\* The texts of the speech events: two parts of a question that follows
\* a sentence, two sentences and a word, a blank, and text without
\* punctuation of the length of the threshold and of one character more.
TextHello ==
    <<"H", "e", "l", "l", "o", " ", "w", "o", "r", "l", "d", ".", " ", "H",
      "o", "w", " ", "a", "r", "e", " ", "y", "o", "u">>

TextToday == <<"t", "o", "d", "a", "y", "?">>

TextCount == <<"O", "n", "e", ".", " ", "T", "w", "o", ".", " ", "G", "o">>

TextBlank == <<" ">>

TextFull == [k \in 1 .. Threshold |-> "a"]

TextLong == [k \in 1 .. Threshold + 1 |-> "a"]

SpeechTexts ==
    {TextHello, TextToday, TextCount, TextBlank, TextFull, TextLong}

\* No call has been made yet.
NoCall ==
    [op |-> "none", conn |-> "none", text |-> <<>>, before |-> <<>>,
     pending |-> <<>>, tried |-> <<>>]

\* AudioDispatcher.__init__
DispatcherInit ==
    /\ textBuffer = <<>>
    /\ ttsConnection = "none"
    /\ sinkLog = <<>>
    /\ lastCall = NoCall
    /\ arrived = 0
    /\ ntexts = 0
    /\ nflushes = 0

\* What each send of a call does: chosen freely while there is a
\* connection, of no account while there is none.
OutcomesOf(n) ==
    IF ttsConnection = "none" THEN {[k \in 1 .. n |-> "sent"]}
    ELSE [1 .. n -> SendOutcomes]

\* `await self._process_speech_text(text)` of _process_speech_events: the
\* whole call; no other call of the dispatcher runs during its sends.
OnText ==
    /\ ntexts < MaxTexts
    /\ \E plain \in SpeechTexts :
          LET text == Arriving(plain, arrived)
          IN \E outs \in OutcomesOf(SendsFor(textBuffer \o text \o <<Space>>)) :
                LET r == ProcessSpeechText(textBuffer,
                            Sending(ttsConnection, sinkLog, <<>>), text, outs)
                IN /\ textBuffer' = r.buffer
                   /\ ttsConnection' = r.st.conn
                   /\ sinkLog' = r.st.log
                   /\ lastCall' = [op |-> "onText", conn |-> ttsConnection,
                                   text |-> text, before |-> textBuffer,
                                   pending |-> r.pending, tried |-> r.st.tried]
                   /\ arrived' = arrived + Len(plain)
    /\ ntexts' = ntexts + 1
    /\ UNCHANGED nflushes
    /\ UNCHANGED <<busVars, fanoutVars, invocationVars, routerVars, batchVars,
                   hostVars>>

\* `await dispatcher.flush_buffer()`
Flush ==
    /\ nflushes < MaxFlushes
    /\ \E outs \in OutcomesOf(1) :
          LET r == FlushBuffer(textBuffer,
                               Sending(ttsConnection, sinkLog, <<>>), outs[1])
          IN /\ textBuffer' = r.buffer
             /\ ttsConnection' = r.st.conn
             /\ sinkLog' = r.st.log
             /\ lastCall' = [op |-> "flush", conn |-> ttsConnection,
                             text |-> <<>>, before |-> textBuffer,
                             pending |-> textBuffer, tried |-> r.st.tried]
    /\ nflushes' = nflushes + 1
    /\ UNCHANGED <<arrived, ntexts>>
    /\ UNCHANGED <<busVars, fanoutVars, invocationVars, routerVars, batchVars,
                   hostVars>>

\* _connect_to_tts_worker: `self.tts_connection = websocket`
Connect ==
    /\ ttsConnection = "none"
    /\ ttsConnection' = "open"
    /\ UNCHANGED <<textBuffer, sinkLog, lastCall, arrived, ntexts, nflushes>>
    /\ UNCHANGED <<busVars, fanoutVars, invocationVars, routerVars, batchVars,
                   hostVars>>

\* ------------------------------------------------- the batching dispatcher
\* `batch_delay: float = 0.5`, in tenths of a second.
BatchDelay == 5

\* batch_timer: `state` is "none" before the first task, "sleeping" in
\* `await asyncio.sleep(self.batch_delay)`, "sentence" in the send of
\* sentences[next], "threshold" in the send of the buffer, "done" after the
\* task has returned, "cancelled" after cancel() has ended it.
Timer(state, sentences, next) ==
    [state |-> state, sentences |-> sentences, next |-> next]

\* BatchAudioDispatcher.__init__
BatchInit ==
    /\ pendingTexts = <<>>
    /\ batchTimer = Timer("none", <<>>, 0)
    /\ elapsed = 0
    /\ arrivals = <<>>
    /\ batchLog = <<>>

\* `" ".join(self.pending_texts)`
RECURSIVE CombinedText(_)
CombinedText(texts) ==
    IF texts = <<>> THEN <<>>
    ELSE IF Len(texts) = 1 THEN texts[1]
    ELSE CombinedText(SubSeq(texts, 1, Len(texts) - 1))
           \o <<Space>> \o texts[Len(texts)]

\* Mutant of Expired: the sleep ends a tenth of a second early.
ExpiredEarly(t) == t >= BatchDelay - 1

\* `await asyncio.sleep(self.batch_delay)` has returned.
Expired(t) == t >= BatchDelay

\* The chunk the timer task is sending while it is suspended in a send.
ChunkInFlight ==
    IF batchTimer.state = "sentence"
    THEN StripText(batchTimer.sentences[batchTimer.next])
    ELSE StripText(textBuffer)

\* AudioDispatcher._process_speech_text from the send of sentences[next]
\* on, as far as the next send that suspends: a send without a connection
\* returns at once, a send on a connection is awaited.
RECURSIVE RunToSend(_, _, _, _)
RunToSend(buffer, st, sentences, next) ==
    LET whole == IF sentences = <<>> THEN 0 ELSE Len(sentences) - 1
        pending == BufferAfter(buffer, sentences)
    IN IF next <= whole
       THEN IF st.conn = "none"
            THEN RunToSend(buffer,
                           SendToTtsWorker(st, StripText(sentences[next]),
                                           "sent"),
                           sentences, next + 1)
            ELSE [buffer |-> buffer, st |-> st,
                  timer |-> Timer("sentence", sentences, next)]
       ELSE IF ~ OverThreshold(pending)
            THEN [buffer |-> pending, st |-> st,
                  timer |-> Timer("done", <<>>, 0)]
       ELSE IF st.conn = "none" \/ StripText(pending) = <<>>
            THEN [buffer |-> <<>>,
                  st |-> SendToTtsWorker(st, StripText(pending), "sent"),
                  timer |-> Timer("done", <<>>, 0)]
       ELSE [buffer |-> pending, st |-> st,
             timer |-> Timer("threshold", <<>>, 0)]

\* The texts of the speech events of the batching dispatcher.
BatchTexts == {TextHello, TextToday, TextCount}

\* BatchAudioDispatcher._process_speech_text(text): the text is appended,
\* the timer task cancelled and a new one created. A task cancelled in a
\* send ends there, and the chunk has reached the sink or not.
BatchOnText ==
    /\ ntexts < BatchMaxTexts
    /\ \E plain \in BatchTexts :
          LET text == Arriving(plain, arrived)
          IN /\ pendingTexts' = Append(pendingTexts, text)
             /\ arrivals' =
                   Append(arrivals,
                          [text |-> text,
                           close |-> /\ batchTimer.state = "sleeping"
                                     /\ elapsed < BatchDelay])
             /\ arrived' = arrived + Len(plain)
    /\ IF batchTimer.state \in {"sentence", "threshold"}
       THEN \E reached \in BOOLEAN :
               sinkLog' = IF reached THEN Append(sinkLog, ChunkInFlight)
                          ELSE sinkLog
       ELSE UNCHANGED sinkLog
    /\ batchTimer' = Timer("sleeping", <<>>, 0)
    /\ elapsed' = 0
    /\ ntexts' = ntexts + 1
    /\ UNCHANGED <<textBuffer, ttsConnection, lastCall, nflushes, batchLog>>
    /\ UNCHANGED <<busVars, fanoutVars, invocationVars, routerVars, hostVars>>

\* A tenth of a second passes while the timer task sleeps.
BatchTick ==
    /\ batchTimer.state = "sleeping"
    /\ elapsed < BatchDelay
    /\ elapsed' = elapsed + 1
    /\ UNCHANGED <<pendingTexts, batchTimer, arrivals, batchLog>>
    /\ UNCHANGED dispatcherVars
    /\ UNCHANGED <<busVars, fanoutVars, invocationVars, routerVars, hostVars>>

\* _batch_timer_expired after the sleep: the pending texts are combined
\* and passed to AudioDispatcher._process_speech_text, which runs as far
\* as its first send that suspends.
BatchTimerExpired ==
    /\ batchTimer.state = "sleeping"
    /\ Expired(elapsed)
    /\ IF pendingTexts = <<>>
       THEN /\ batchTimer' = Timer("done", <<>>, 0)
            /\ UNCHANGED <<textBuffer, ttsConnection, sinkLog, batchLog>>
       ELSE LET joined == CombinedText(pendingTexts)
                accumulated == textBuffer \o joined \o <<Space>>
                r == RunToSend(accumulated,
                               Sending(ttsConnection, sinkLog, <<>>),
                               SplitIntoSentences(accumulated), 1)
            IN /\ textBuffer' = r.buffer
               /\ ttsConnection' = r.st.conn
               /\ sinkLog' = r.st.log
               /\ batchTimer' = r.timer
               /\ batchLog' = Append(batchLog, [text |-> joined,
                                                waited |-> elapsed])
    /\ pendingTexts' = <<>>
    /\ UNCHANGED <<elapsed, arrivals>>
    /\ UNCHANGED <<lastCall, arrived, ntexts, nflushes>>
    /\ UNCHANGED <<busVars, fanoutVars, invocationVars, routerVars, hostVars>>

\* The send the timer task is suspended in returns or raises, and the
\* task runs as far as its next send that suspends.
BatchSendReturns ==
    /\ batchTimer.state \in {"sentence", "threshold"}
    /\ \E out \in SendOutcomes :
          LET st == SendToTtsWorker(Sending(ttsConnection, sinkLog, <<>>),
                                    ChunkInFlight, out)
              r == IF batchTimer.state = "sentence"
                   THEN RunToSend(textBuffer, st, batchTimer.sentences,
                                  batchTimer.next + 1)
                   ELSE [buffer |-> <<>>, st |-> st,
                         timer |-> Timer("done", <<>>, 0)]
          IN /\ textBuffer' = r.buffer
             /\ ttsConnection' = r.st.conn
             /\ sinkLog' = r.st.log
             /\ batchTimer' = r.timer
    /\ UNCHANGED <<pendingTexts, elapsed, arrivals, batchLog>>
    /\ UNCHANGED <<lastCall, arrived, ntexts, nflushes>>
    /\ UNCHANGED <<busVars, fanoutVars, invocationVars, routerVars, hostVars>>

\* ------------------------------------------- the process that hosts the bus
\* The callers of get_command_bus(): Workflow.__call__, BaseAgent,
\* AudioDispatcher.start, and the servers.
Callers == {"orchestrator", "agent", "dispatcher", "server"}

\* The consumer loops: AudioDispatcher._process_speech_events, the SSE
\* generator StreamingServer._event_generator, stream_actions of the
\* WebSocket servers, TTSWorker._listen_for_speech_requests.
ConsumerKinds == {"speech", "sse", "actions", "tts"}

\* The subscriber queues the consumer loops make, and the events that
\* are published to them.
ConsumerQueues == {1, 2}

ConsumerEvents == {1, 2}

\* A subscriber queue no consumer loop has made.
NoConsumer == [kind |-> "none", pc |-> "none"]

\* A consumer loop: pc is "get" in `await subscriber_queue.get()`, "body"
\* in an await of the loop body (a send, a yield of an event), "error"
\* in the yield of the except block of the SSE generator, "ended" after
\* the coroutine has finished.
Consumer(kind, pc) == [kind |-> kind, pc |-> pc]

\* The state of a specification that has the bus of BusInit, made by one
\* get_command_bus() call, and no consumer loops.
HostIdle ==
    /\ commandBus = 1
    /\ instances = 1
    /\ loopStarts = 1
    /\ obtained = [c \in Callers |-> 0]
    /\ consumers = [h \in Handles |-> NoConsumer]
    /\ dispatcherRunning = FALSE
    /\ taken = <<>>

\* The module bus.py after import: `_command_bus = None`; no CommandBus
\* has been made (the bus variables are those of CommandBus.__init__).
HostInit ==
    /\ queue = <<>>
    /\ subscribers = <<>>
    /\ running = FALSE
    /\ loopPc = "none"
    /\ chan = [h \in Handles |-> <<>>]
    /\ waiting = [h \in Handles |-> FALSE]
    /\ emitTasks = <<>>
    /\ ncalls = 0
    /\ nsubs = 0
    /\ raised = "none"
    /\ lastAbsent = FALSE
    /\ accepted = <<>>
    /\ delivered = [h \in Handles |-> <<>>]
    /\ subAt = [h \in Handles |-> 0]
    /\ stopAt = -1
    /\ commandBus = 0
    /\ instances = 0
    /\ loopStarts = 0
    /\ obtained = [c \in Callers |-> 0]
    /\ consumers = [h \in Handles |-> NoConsumer]
    /\ dispatcherRunning = FALSE
    /\ taken = <<>>

\* Mutant of CommandBusFor: a CommandBus is made by every call.
CommandBusAlways(global, made) == made + 1

\* `if _command_bus is None: _command_bus = CommandBus()`: the instance
\* the global refers to afterwards.
CommandBusFor(global, made) == IF global = 0 THEN made + 1 ELSE global

\* get_command_bus(), from the test of the global to the return.
\* CommandBus.start() has no await inside, so `await _command_bus.start()`
\* does not suspend and the whole call is one step of the event loop.
GetCommandBus ==
    LET bus == CommandBusFor(commandBus, instances)
        new == bus # commandBus
    IN /\ commandBus' = bus
       /\ instances' = IF new THEN instances + 1 ELSE instances
       /\ loopStarts' = IF new THEN loopStarts + 1 ELSE loopStarts
       /\ running' = IF new THEN TRUE ELSE running
       /\ loopPc' = IF new THEN "created" ELSE loopPc

\* `self.command_bus = await get_command_bus()` of a caller.
CallerGetsBus(c) ==
    /\ obtained[c] = 0
    /\ GetCommandBus
    /\ obtained' = [obtained EXCEPT ![c] = commandBus']
    /\ UNCHANGED <<queue, subscribers, chan, waiting, emitTasks, ncalls,
                   nsubs, raised, lastAbsent, accepted, delivered, subAt,
                   stopAt>>
    /\ UNCHANGED <<consumers, dispatcherRunning, taken>>
    /\ UNCHANGED <<fanoutVars, invocationVars, routerVars, dispatcherVars,
                   batchVars>>

\* Module-level emit() inside the running loop: ModuleEmit.
HostModuleEmit == ModuleEmit

\* _emit_to_bus: `bus = await get_command_bus()`, then the put.
HostEmitToBus ==
    /\ emitTasks # <<>>
    /\ GetCommandBus
    /\ LET e == Head(emitTasks)
           r == PutNowait(queue, IntakeMaxSize, e)
       IN /\ queue' = r.q
          /\ accepted' = IF r.full THEN accepted ELSE Append(accepted, e)
    /\ emitTasks' = Tail(emitTasks)
    /\ UNCHANGED <<subscribers, chan, waiting, ncalls, nsubs, raised,
                   lastAbsent, delivered, subAt, stopAt>>
    /\ UNCHANGED <<obtained, consumers, dispatcherRunning, taken>>
    /\ UNCHANGED <<fanoutVars, invocationVars, routerVars, dispatcherVars,
                   batchVars>>

\* Mutant of Finally: the queue stays in the subscriber list.
FinallyKept(subs, h) == subs

\* `finally: self.command_bus.unsubscribe(subscriber_queue)`
Finally(subs, h) == UnsubscribeList(subs, h).subs

\* The consumer loop of queue h leaves its try block: the finally clause
\* runs and the coroutine finishes.
LoopEnds(h) ==
    /\ subscribers' = Finally(subscribers, h)
    /\ consumers' = [consumers EXCEPT ![h].pc = "ended"]

\* The body of the loop is through: `while self.running` of the speech
\* loop, `while True` of the others.
LoopAgain(h) ==
    IF consumers[h].kind = "speech" /\ ~dispatcherRunning
    THEN LoopEnds(h)
    ELSE /\ consumers' = [consumers EXCEPT ![h].pc = "get"]
         /\ UNCHANGED subscribers

\* What happens to the coroutine at a step of its loop body: it comes to
\* an await that suspends, it goes through to the end of the body, or an
\* Exception is raised.
BodyOutcomes == {"suspends", "through", "raises"}

\* `except Exception` of the loop: the SSE generator yields an error
\* event before its finally clause, the others print and end.
LoopRaises(h) ==
    IF consumers[h].kind = "sse"
    THEN /\ consumers' = [consumers EXCEPT ![h].pc = "error"]
         /\ UNCHANGED subscribers
    ELSE LoopEnds(h)

LoopBody(h, out) ==
    CASE out = "suspends" ->
            /\ consumers' = [consumers EXCEPT ![h].pc = "body"]
            /\ UNCHANGED subscribers
      [] out = "through" -> LoopAgain(h)
      [] OTHER -> LoopRaises(h)

\* A consumer loop starts on the bus it has obtained: it subscribes and
\* comes to its first `await subscriber_queue.get()`.  The speech loop
\* belongs to AudioDispatcher.start(), which has set running before.
ConsumerStart ==
    /\ commandBus # 0
    /\ nsubs + 1 \in ConsumerQueues
    /\ \E kind \in ConsumerKinds :
          /\ consumers' = [consumers EXCEPT ![nsubs + 1] =
                                Consumer(kind, "get")]
          /\ dispatcherRunning' = (dispatcherRunning \/ kind = "speech")
    /\ nsubs' = nsubs + 1
    /\ subscribers' = Append(subscribers, nsubs + 1)
    /\ subAt' = [subAt EXCEPT ![nsubs + 1] = ncalls]
    /\ raised' = "none"
    /\ lastAbsent' = FALSE
    /\ UNCHANGED <<queue, running, loopPc, chan, waiting, emitTasks, ncalls,
                   accepted, delivered, stopAt>>
    /\ UNCHANGED <<commandBus, instances, loopStarts, obtained, taken>>
    /\ UNCHANGED <<fanoutVars, invocationVars, routerVars, dispatcherVars,
                   batchVars>>

\* The frame of a step of a consumer loop.
ConsumerFrame ==
    /\ UNCHANGED <<queue, running, loopPc, waiting, emitTasks, ncalls, nsubs,
                   raised, lastAbsent, accepted, delivered, subAt, stopAt>>
    /\ UNCHANGED <<commandBus, instances, loopStarts, obtained,
                   dispatcherRunning, taken>>
    /\ UNCHANGED <<fanoutVars, invocationVars, routerVars, dispatcherVars,
                   batchVars>>

\* `await subscriber_queue.get()` returns the oldest event and the body of
\* the loop runs as far as its next suspension.
ConsumerTakes(h) ==
    /\ h \in 1 .. nsubs
    /\ consumers[h].pc = "get"
    /\ chan[h] # <<>>
    /\ chan' = [chan EXCEPT ![h] = QueueGet(chan[h]).rest]
    /\ \E out \in BodyOutcomes : LoopBody(h, out)
    /\ ConsumerFrame

\* The await the body is suspended in returns or raises.
ConsumerContinues(h) ==
    /\ h \in 1 .. nsubs
    /\ consumers[h].pc = "body"
    /\ \E out \in BodyOutcomes : LoopBody(h, out)
    /\ UNCHANGED chan
    /\ ConsumerFrame

\* The coroutine is cancelled, or the generator closed, where it is
\* suspended: CancelledError or GeneratorExit passes `except Exception`
\* and the finally clause runs.
ConsumerCancelled(h) ==
    /\ h \in 1 .. nsubs
    /\ consumers[h].pc \in {"get", "body", "error"}
    /\ LoopEnds(h)
    /\ UNCHANGED chan
    /\ ConsumerFrame

\* The client of the SSE generator asks for the event after the error
\* event: the generator runs its finally clause and finishes.
SseAfterError(h) ==
    /\ h \in 1 .. nsubs
    /\ consumers[h].pc = "error"
    /\ LoopEnds(h)
    /\ UNCHANGED chan
    /\ ConsumerFrame

\* AudioDispatcher.stop(): `self.running = False`
DispatcherStop ==
    /\ dispatcherRunning
    /\ dispatcherRunning' = FALSE
    /\ UNCHANGED <<commandBus, instances, loopStarts, obtained, consumers,
                   taken>>
    /\ UNCHANGED busVars
    /\ UNCHANGED <<fanoutVars, invocationVars, routerVars, dispatcherVars,
                   batchVars>>

\* CommandBus.emit on the bus the caller has obtained.
HostEmit == commandBus # 0 /\ Emit

\* CommandBus.get_next_action() called while the intake queue is not
\* empty: `await self._queue.get()` returns the oldest event at once.
\* (Called on an empty queue it waits in the queue's list of getters
\* behind the dispatch loop, which is then resumed first.)
GetNextAction ==
    /\ queue # <<>>
    /\ queue' = QueueGet(queue).rest
    /\ taken' = Append(taken, QueueGet(queue).item)
    /\ raised' = "none"
    /\ lastAbsent' = FALSE
    /\ UNCHANGED <<subscribers, running, loopPc, chan, waiting, emitTasks,
                   ncalls, nsubs, accepted, delivered, subAt, stopAt>>
    /\ UNCHANGED <<commandBus, instances, loopStarts, obtained, consumers,
                   dispatcherRunning>>
    /\ UNCHANGED <<fanoutVars, invocationVars, routerVars, dispatcherVars,
                   batchVars>>

\* The router and the dispatchers of a specification that uses none.
ExtIdle == RouterIdle /\ DispatcherInit /\ BatchInit /\ HostIdle

vars == <<busVars, wfVars>>

\* The default workflow registers the three agents.
Init ==
    /\ BusInit
    /\ WfInit
    /\ CallInit
    /\ ExtIdle
    /\ topology = "star"
    /\ registry = DefaultRegistry
    /\ agents = Agents

\* The bus under its publishers, subscribers and dispatch loop; the
\* subscriber queues are not read (the slowest consumer there is).
Next ==
    \/ Emit
    \/ ModuleEmit
    \/ EmitToBus
    \/ Subscribe
    \/ \E h \in Handles : Unsubscribe(h)
    \/ Stop
    \/ ProcessActions

Spec == Init /\ [][Next]_vars

\* One fan-out invocation of a workflow and the agents it runs.  The
\* workflow was built with all three agents or without the calendar agent.
InitWF ==
    /\ BusInit
    /\ WfInit
    /\ CallInit
    /\ ExtIdle
    /\ topology = "star"
    /\ registry \in {DefaultRegistry, <<"PlannerAgent", "WeatherAgent">>}
    /\ agents = Range(registry)

NextWF ==
    \/ WfDispatch
    \/ \E i \in 1 .. MaxTasks : BranchStart(i)
    \/ \E i \in 1 .. MaxTasks : BranchFinish(i)
    \/ WfCombine
    \/ WfFinalResponse
    \/ WfToken
    \/ WfReturn

SpecWF == InitWF /\ [][NextWF]_vars

\* One invocation of a workflow built with some agents and a topology.
InitCall ==
    /\ BusInit
    /\ WfInit
    /\ CallInit
    /\ ExtIdle
    /\ topology \in Topologies
    /\ registry \in Registries
    /\ agents = Range(registry)

NextCall ==
    \/ CallStart
    \/ StarFinish
    \/ ChainStep
    \/ ParallelFinish
    \/ CallWfDispatch
    \/ WfDecomposerRaises
    \/ \E i \in 1 .. CallMaxTasks : BranchStart(i)
    \/ \E i \in 1 .. CallMaxTasks : BranchFinish(i)
    \/ WfCombine
    \/ WfCombineRaises
    \/ WfFinalResponse
    \/ WfFinalResponseRaises
    \/ WfToken
    \/ WfReturn

SpecCall == InitCall /\ [][NextCall]_vars

\* ------------------------------- a fan-out invocation streaming over the bus
StreamMaxSubs == 1

\* The raw tasks of the streaming runs: one general part, or a weather
\* part and a general part.
StreamTasks ==
    {[multi |-> FALSE, locations |-> 0, parts |-> <<"general">>],
     [multi |-> FALSE, locations |-> 0, parts |-> <<"weather", "general">>]}

\* The event loop runs what is ready in the order it became ready
\* (asyncio keeps one FIFO of ready callbacks, and a timer that is due is
\* appended to it).  The _emit_to_bus tasks a step of the invocation made
\* are in that queue before the branches gather schedules afterwards, and
\* they and the wakeup of the dispatch loop that their put_nowait
\* schedules are in it before the timer of the sleep the step ends with,
\* and before the wakeup of a suspended agent.run.
TasksRun == emitTasks = <<>>

BusRun == emitTasks = <<>> /\ queue = <<>>

StreamDispatch ==
    /\ WfDispatch
    /\ \E t \in StreamTasks : agentTasks' = ParseComplexTask(t)

StreamBranchStart(i) == TasksRun /\ BranchStart(i)

StreamBranchFinish(i) == BusRun /\ BranchFinish(i)

StreamCombine == BusRun /\ WfCombine

StreamFinalResponse == BusRun /\ WfFinalResponse

StreamToken == BusRun /\ WfToken

StreamReturn == BusRun /\ WfReturn

StreamSubscribe == nsubs < StreamMaxSubs /\ Subscribe

\* One fan-out invocation of the default workflow, the tasks its module
\* level emits create, the dispatch loop of the bus, and subscribers.
NextStream ==
    \/ StreamDispatch
    \/ \E i \in 1 .. MaxTasks : StreamBranchStart(i)
    \/ \E i \in 1 .. MaxTasks : StreamBranchFinish(i)
    \/ StreamCombine
    \/ StreamFinalResponse
    \/ StreamToken
    \/ StreamReturn
    \/ EmitToBus
    \/ ProcessActions
    \/ StreamSubscribe

SpecStream == Init /\ [][NextStream]_vars

\* ------------------------------------------- a fan-out invocation, scheduled
LiveMaxTasks == 2

LiveWfDispatch == WfDispatch /\ Len(agentTasks') <= LiveMaxTasks

LiveNextWF ==
    \/ LiveWfDispatch
    \/ \E i \in 1 .. LiveMaxTasks : BranchStart(i)
    \/ \E i \in 1 .. LiveMaxTasks : BranchFinish(i)
    \/ WfCombine
    \/ WfFinalResponse
    \/ WfToken
    \/ WfReturn

\* The event loop runs every coroutine that is ready (a branch that gather
\* has scheduled, the invocation once gather or a sleep is over), and every
\* agent.run that was started returns or raises.
LiveSpecWF ==
    /\ InitWF
    /\ [][LiveNextWF]_vars
    /\ \A i \in 1 .. LiveMaxTasks : WF_vars(BranchStart(i))
    /\ \A i \in 1 .. LiveMaxTasks : WF_vars(BranchFinish(i))
    /\ WF_vars(WfCombine)
    /\ WF_vars(WfFinalResponse)
    /\ WF_vars(WfToken)
    /\ WF_vars(WfReturn)

\* ------------------------------------------------- the bus with its consumers
LiveMaxEmits == 2

LiveMaxSubs == 1

\* The bus while it is running (stop() is not called), with publishers
\* calling CommandBus.emit and consumers reading their subscriber queues.
LiveEmit == ncalls < LiveMaxEmits /\ Emit

LiveSubscribe == nsubs < LiveMaxSubs /\ Subscribe

LiveNext ==
    \/ LiveEmit
    \/ LiveSubscribe
    \/ \E h \in Handles : Unsubscribe(h)
    \/ ProcessActions
    \/ \E h \in Handles : ConsumerGet(h)
    \/ \E h \in Handles : ConsumerResume(h)

\* The event loop runs every task that is ready: the dispatch loop once
\* the intake queue has an event, a consumer suspended in get() once its
\* queue has an event.
LiveSpec ==
    /\ Init
    /\ [][LiveNext]_vars
    /\ WF_vars(ProcessActions)
    /\ \A h \in Handles : WF_vars(ConsumerResume(h))

\* The methods of a TaskRouter called on one task.
InitRouter ==
    /\ BusInit
    /\ WfInit
    /\ CallInit
    /\ topology = "star"
    /\ registry = DefaultRegistry
    /\ agents = Agents
    /\ RouterInit
    /\ DispatcherInit
    /\ BatchInit
    /\ HostIdle

NextRouter ==
    \/ RouterShouldUseParallel
    \/ RouterParse

SpecRouter == InitRouter /\ [][NextRouter]_vars

\* The streaming dispatcher under speech texts, flushes, and a sink that
\* connects and fails.
InitDispatcher ==
    /\ BusInit
    /\ WfInit
    /\ CallInit
    /\ topology = "star"
    /\ registry = DefaultRegistry
    /\ agents = Agents
    /\ RouterIdle
    /\ DispatcherInit
    /\ BatchInit
    /\ HostIdle

NextDispatcher ==
    \/ OnText
    \/ Flush
    \/ Connect

SpecDispatcher == InitDispatcher /\ [][NextDispatcher]_vars

\* The batching dispatcher under speech texts, the passing of time, and a
\* sink that connects and fails.
NextBatch ==
    \/ BatchOnText
    \/ BatchTick
    \/ BatchTimerExpired
    \/ BatchSendReturns
    \/ Connect

SpecBatch == InitDispatcher /\ [][NextBatch]_vars

\* The callers of get_command_bus() in a process that has just imported
\* bus.py, the publishers, and the dispatch loop.
InitHost ==
    /\ HostInit
    /\ WfInit
    /\ CallInit
    /\ topology = "star"
    /\ registry = DefaultRegistry
    /\ agents = Agents
    /\ RouterIdle
    /\ DispatcherInit
    /\ BatchInit

NextHost ==
    \/ \E c \in Callers : CallerGetsBus(c)
    \/ HostModuleEmit
    \/ HostEmitToBus
    \/ HostEmit
    \/ ProcessActions

SpecHost == InitHost /\ [][NextHost]_vars

\* The bus under its publishers, subscribers and dispatch loop, and
\* callers of get_next_action().
NextIntake ==
    \/ Emit
    \/ ModuleEmit
    \/ EmitToBus
    \/ Subscribe
    \/ ProcessActions
    \/ GetNextAction

SpecIntake == Init /\ [][NextIntake]_vars

\* The consumer loops on the bus, its publishers and its dispatch loop.
ConsumersEmit == ncalls + 1 \in ConsumerEvents /\ Emit

NextConsumers ==
    \/ ConsumersEmit
    \/ ProcessActions
    \/ ConsumerStart
    \/ \E h \in Handles : ConsumerTakes(h)
    \/ \E h \in Handles : ConsumerContinues(h)
    \/ \E h \in Handles : ConsumerCancelled(h)
    \/ \E h \in Handles : SseAfterError(h)
    \/ DispatcherStop

SpecConsumers == Init /\ [][NextConsumers]_vars

PosIn(s, x) == CHOOSE i \in 1 .. Len(s) : s[i] = x

Created == 1 .. nsubs

\* The events a dispatch step took off the intake queue.
Dequeued == SubSeq(queue, 1, Len(queue) - Len(queue'))

\* A step of the dispatch loop that took at least one event.
DispatchStep == Len(queue') < Len(queue)

\* A step that is a call of CommandBus.emit.
EmitStep == ncalls' = ncalls + 1 /\ emitTasks' = emitTasks

\* ---------------------------------------------------------------- C1
\* C1: every subscriber queue was given its events in the order in which
\* the intake queue accepted them, each at most once (the positions in
\* the acceptance order strictly increase along the queue's history).
C1_DeliveryOrder ==
    \A h \in Handles : \A i, j \in 1 .. Len(delivered[h]) :
        /\ InSeq(delivered[h][i], accepted)
        /\ i < j => PosIn(accepted, delivered[h][i])
                      < PosIn(accepted, delivered[h][j])

\* Two subscribers that were both given two events.
C1_Witness ==
    /\ nsubs >= 2
    /\ Len(delivered[1]) >= 2
    /\ Len(delivered[2]) >= 2

\* ---------------------------------------------------------------- C2
\* C2: a subscriber queue is only given events whose publish call was
\* made after subscribe() returned it.
C2_OnlyPublishedAfterSubscribe ==
    \A h \in Created : \A i \in 1 .. Len(delivered[h]) :
        delivered[h][i] > subAt[h]

\* ---------------------------------------------------------------- C3
\* C3: the intake queue accepts the events in the order of the publish
\* calls, whichever entry point made them.
C3_IntakeOrderIsCallOrder ==
    \A i, j \in 1 .. Len(accepted) : i < j => accepted[i] < accepted[j]

\* ---------------------------------------------------------------- C5
\* A capacity that the publishes of the model can exceed: a subscriber
\* queue of that capacity is full once it holds Capacity events.
Capacity == MaxEmits - 1

\* C5: a subscriber queue never holds more than a fixed number of events.
C5_ChannelBounded ==
    \A h \in Created : Len(chan[h]) <= Capacity

\* ---------------------------------------------------------------- C4
\* C4: when the dispatch loop has an event for a subscriber whose queue is
\* full, the subscriber is removed from the list and is not given the
\* event, and every other subscriber of the list is given it.
C4_FullSubscriberEvicted ==
    [][DispatchStep =>
         \A h \in Range(subscribers) :
            IF Len(chan[h]) >= Capacity
            THEN h \notin Range(subscribers') /\ chan'[h] = chan[h]
            ELSE Added(chan, chan', h) # <<>>]_vars

\* ---------------------------------------------------------------- C6
\* C6: CommandBus.emit can be called in every state, whatever the
\* subscribers and their queues hold; the call raises nothing, appends the
\* event to the intake queue and touches no subscriber; and with nobody
\* subscribed the dispatch loop takes the events off the intake queue and
\* puts them nowhere.
C6_PublishNeverBlocks ==
    [][/\ ncalls < MaxEmits => ENABLED Emit
       /\ EmitStep =>
            /\ queue' = Append(queue, ncalls + 1)
            /\ raised' = "none"
            /\ chan' = chan /\ subscribers' = subscribers
       /\ (DispatchStep /\ subscribers = <<>>) =>
            /\ chan' = chan /\ delivered' = delivered
            /\ subscribers' = <<>>
            /\ raised' = raised
            /\ loopPc' \in {"get", "done"}]_vars

\* An event was published with nobody subscribed and the dispatch loop has
\* taken it off the intake queue.
C6_Witness ==
    /\ nsubs = 0
    /\ ncalls >= 1
    /\ accepted # <<>>
    /\ queue = <<>>
    /\ loopPc = "get"

\* ---------------------------------------------------------------- C7
\* Pairs <<e, h>>: event e was published after subscribe() returned h, h is
\* still in the subscriber list, and e has not been put on h's queue.
Missing ==
    {p \in Events \X Handles :
        /\ p[1] <= ncalls
        /\ p[1] > subAt[p[2]]
        /\ p[2] \in Range(subscribers)
        /\ ~InSeq(p[1], delivered[p[2]])}

\* C7: while the dispatch loop runs and is scheduled fairly, every event
\* published while a subscriber is subscribed is eventually put on that
\* subscriber's queue unless the subscriber is unsubscribed first (from
\* any state, a state is reached where no such event is missing), and a
\* consumer suspended in get() is eventually resumed once its queue holds
\* an event.
C7_EventuallyDelivered ==
    /\ []<>(Missing = {})
    /\ []<>(\A h \in Handles : ~(waiting[h] /\ chan[h] # <<>>))

\* The dispatch loop has put an event, published after the subscriber
\* subscribed, on the queue of a consumer that is suspended in get().
C7_Witness ==
    \E h \in Created :
        /\ h \in Range(subscribers)
        /\ waiting[h]
        /\ chan[h] # <<>>
        /\ \A i \in 1 .. Len(delivered[h]) : delivered[h][i] > subAt[h]

\* ---------------------------------------------------------------- C8
\* C8: a queue that is no longer in the subscriber list is given no event
\* and is never in the list again; a call unsubscribe(h) removes h alone
\* and changes no subscriber queue; and a dispatch step gives every
\* subscriber of the list exactly the events it took off the intake queue.
C8_UnsubscribeFrame ==
    [][/\ \A h \in Created :
            h \notin Range(subscribers) =>
                /\ delivered'[h] = delivered[h]
                /\ h \notin Range(subscribers')
       /\ \A h \in Created :
            Unsubscribe(h) =>
                /\ h \notin Range(subscribers')
                /\ \A g \in Created \ {h} :
                      g \in Range(subscribers) <=> g \in Range(subscribers')
                /\ chan' = chan /\ delivered' = delivered
                /\ queue' = queue
       /\ DispatchStep =>
            \A g \in Range(subscribers) :
                Added(delivered, delivered', g) = Dequeued]_vars

\* Subscriber 1 has been unsubscribed and subscriber 2, who subscribed
\* later, has since been given an event that 1 was not given.
C8_Witness ==
    /\ nsubs >= 2
    /\ 1 \notin Range(subscribers)
    /\ 2 \in Range(subscribers)
    /\ Len(delivered[2]) > Len(delivered[1])

\* ---------------------------------------------------------------- C9
\* C9: unsubscribe of a queue that is not in the subscriber list (never
\* subscribed, or already removed) raises nothing and changes nothing of
\* the bus, and unsubscribing twice leaves the list that unsubscribing
\* once leaves.
C9_UnsubscribeIdempotent ==
    [][\A h \in 0 .. nsubs :
          /\ LET once == UnsubscribeList(subscribers, h)
                 twice == UnsubscribeList(once.subs, h)
             IN /\ once.raised = "none" /\ twice.raised = "none"
                /\ twice.subs = once.subs
          /\ (Unsubscribe(h) /\ h \notin Range(subscribers)) =>
                /\ raised' = "none"
                /\ UNCHANGED <<queue, subscribers, running, loopPc, chan,
                               waiting, emitTasks, ncalls, nsubs, accepted,
                               delivered, subAt>>]_vars

\* unsubscribe has just been called for a queue that is not in the list,
\* after one subscriber was removed and with another still in the list.
C9_Witness ==
    /\ lastAbsent
    /\ nsubs >= 2
    /\ Len(subscribers) = 1
    /\ raised = "none"

\* --------------------------------------------------------------- C10
\* The branches whose agent.run raised, and those whose agent.run returned.
RaisedBranches == {i \in 1 .. Len(results) : ~results[i].success}

ReturnedBranches == {i \in 1 .. Len(results) : results[i].success}

\* The result of branch i is in the returned agent_results, under its agent.
ResultPresent(i) ==
    \E k \in 1 .. Len(wfReturn.agent_results) :
        /\ wfReturn.agent_results[k].agent = parallel[i].agent
        /\ \E n \in 1 .. Len(wfReturn.agent_results[k].results) :
              wfReturn.agent_results[k].results[n].task = parallel[i].task

\* C10: a branch whose agent raised does not stop the others (a started
\* sibling can always finish, and the next one can always start), and the
\* invocation returns a combined result in which every branch has run to
\* its end, every branch that returned has its result under its agent,
\* and every branch that raised is a failure entry of its own agent and
\* nothing else.
C10_FailureIsolated ==
    /\ wfPc = "gather" =>
          \A j \in 1 .. Len(branch) :
             /\ branch[j].st = "running" => ENABLED BranchFinish(j)
             /\ (branch[j].st = "pending"
                   /\ \A k \in 1 .. j - 1 : branch[k].st # "pending")
                  => ENABLED BranchStart(j)
    /\ wfPc \in {"sleep", "stream", "returned"} =>
          \A i \in 1 .. Len(parallel) : results[i].st = "done"
    /\ wfPc = "returned" =>
          /\ wfReturn.type = "complex_coordination"
          /\ \A i \in ReturnedBranches : ResultPresent(i)
          /\ \A i \in RaisedBranches :
                /\ ~ResultPresent(i)
                /\ \E n \in 1 .. Len(wfReturn.failed_agents) :
                      wfReturn.failed_agents[n].agent = parallel[i].agent
          /\ Len(wfReturn.failed_agents) = Cardinality(RaisedBranches)

\* The invocation has returned after one branch raised and another, of a
\* different agent, returned a result.
C10_Witness ==
    /\ wfPc = "returned"
    /\ \E i \in RaisedBranches : \E j \in ReturnedBranches :
          parallel[i].agent # parallel[j].agent

\* --------------------------------------------------------------- C11
\* C11: the success_rate a fan-out invocation returns is the number of
\* dispatched sub-tasks whose execution did not raise over the number of
\* dispatched sub-tasks; with three dispatched sub-tasks of which exactly
\* one raised it is 2/3, the agent that raised is in failed_agents, and
\* the results of the other two are in agent_results.
C11_SuccessRate ==
    wfPc = "returned" =>
        /\ wfReturn.success_rate.den > 0
        /\ Len(parallel) > 0 =>
              wfReturn.success_rate.num * Len(parallel)
                 = Cardinality(ReturnedBranches) * wfReturn.success_rate.den
        /\ (Len(parallel) = 3 /\ Cardinality(RaisedBranches) = 1) =>
              /\ wfReturn.success_rate.num * 3
                    = 2 * wfReturn.success_rate.den
              /\ \A i \in RaisedBranches :
                    \E n \in 1 .. Len(wfReturn.failed_agents) :
                        wfReturn.failed_agents[n].agent = parallel[i].agent
              /\ \A i \in ReturnedBranches : ResultPresent(i)

\* The invocation has returned with three dispatched sub-tasks of which
\* exactly one raised.
C11_Witness ==
    /\ wfPc = "returned"
    /\ Len(parallel) = 3
    /\ Cardinality(RaisedBranches) = 1
    /\ wfReturn.success_rate = [num |-> 2, den |-> 3]

\* --------------------------------------------------------------- C12
\* The branches whose agent.run raised or returned a result that reports
\* an error ({"error": ...}).
ErrorBranches ==
    {i \in 1 .. Len(results) :
        ~results[i].success \/ results[i].result = "errordict"}

\* C12: every branch whose agent raised or returned a result reporting an
\* error has an entry of its agent in failed_agents, has no result in
\* agent_results, and is not counted as successful.
C12_ReportedErrorIsFailure ==
    wfPc = "returned" =>
        /\ \A i \in ErrorBranches :
              /\ \E n \in 1 .. Len(wfReturn.failed_agents) :
                    wfReturn.failed_agents[n].agent = parallel[i].agent
              /\ ~ResultPresent(i)
        /\ wfReturn.successful_count
              = Len(results) - Cardinality(ErrorBranches)

\* --------------------------------------------------------------- C13
\* The sub-tasks of an agent whose execution returned, in dispatch order
\* (the order of parallel_tasks).
RECURSIVE ReturnedTasksOf(_, _)
ReturnedTasksOf(agent, i) ==
    IF i > Len(parallel) THEN <<>>
    ELSE IF parallel[i].agent = agent /\ results[i].success
    THEN <<parallel[i].task>> \o ReturnedTasksOf(agent, i + 1)
    ELSE ReturnedTasksOf(agent, i + 1)

\* C13: in the returned agent_results, the list of an agent holds the
\* results of that agent's sub-tasks in the order in which they were
\* dispatched, whatever the order in which the executions finished.
C13_DispatchOrder ==
    wfPc = "returned" =>
        \A k \in 1 .. Len(wfReturn.agent_results) :
            LET e == wfReturn.agent_results[k]
            IN [n \in 1 .. Len(e.results) |-> e.results[n].task]
                  = ReturnedTasksOf(e.agent, 1)

\* The invocation has returned two results of one agent, no execution
\* raised, and one of that agent's executions finished while an earlier
\* dispatched one was still running.
C13_Witness ==
    /\ wfPc = "returned"
    /\ overtaken
    /\ RaisedBranches = {}
    /\ \E k \in 1 .. Len(wfReturn.agent_results) :
          Len(wfReturn.agent_results[k].results) >= 2

\* --------------------------------------------------------------- C14
\* The branches that execute sub-task i of the decomposition.
BranchesOf(i) == {j \in 1 .. Len(parallel) : parallel[j].task = i}

\* C14 as claimed: every sub-task of the decomposition is dispatched as
\* exactly one execution, so that as many executions are awaited as there
\* are sub-tasks.
C14_EveryPairDispatched ==
    wfPc # "idle" =>
        /\ \A i \in 1 .. Len(agentTasks) : Cardinality(BranchesOf(i)) = 1
        /\ Len(parallel) = Len(agentTasks)

\* C14, amended: every sub-task whose agent is registered in the workflow
\* is dispatched as exactly one execution of that agent, in the order of
\* the decomposition; a sub-task of an agent that is not registered is
\* skipped; every execution is awaited (the results hold one entry per
\* execution, run to its end); and as many executions are awaited as
\* there are sub-tasks of registered agents.
C14_RegisteredPairsDispatchedOnce ==
    wfPc # "idle" =>
        /\ \A i \in 1 .. Len(agentTasks) :
              /\ Cardinality(BranchesOf(i))
                    = IF agentTasks[i] \in agents THEN 1 ELSE 0
              /\ \A j \in BranchesOf(i) : parallel[j].agent = agentTasks[i]
        /\ \A j, k \in 1 .. Len(parallel) :
              j < k => parallel[j].task < parallel[k].task
        /\ Len(parallel)
              = Cardinality({i \in 1 .. Len(agentTasks) :
                               agentTasks[i] \in agents})
        /\ Len(branch) = Len(parallel)
        /\ wfPc # "gather" =>
              /\ Len(results) = Len(parallel)
              /\ \A j \in 1 .. Len(results) :
                    /\ results[j].st = "done"
                    /\ results[j].task = parallel[j].task
                    /\ results[j].agent = parallel[j].agent

\* The invocation has returned; the decomposition had a sub-task of an
\* agent that is not registered, and sub-tasks of registered agents that
\* were executed.
C14_Witness ==
    /\ wfPc = "returned"
    /\ \E i \in 1 .. Len(agentTasks) : agentTasks[i] \notin agents
    /\ Len(parallel) >= 2

\* --------------------------------------------------------------- C15
\* C15: every fan-out invocation has a decomposition with at least one
\* sub-task and dispatches at least one execution.
C15_AtLeastOneDispatched ==
    wfPc # "idle" => (Len(agentTasks) >= 1 /\ Len(parallel) >= 1)

C16_FanOutFailureReported ==
    wfPc = "raised" =>
        /\ callPc = "returned"
        /\ callReturn.kind = "error"
        /\ InSeq("failed", callLog)

\* --------------------------------------------------------------- C18
\* The invocation handed its task to the coordinating agent.
Delegated == runs # <<>> /\ runs[1].path = "star"

\* C18: the invocation delegates exactly when should_use_parallel_execution
\* is false and the topology is star with a planner agent configured; it
\* then makes one agent execution, of the planner, with the raw task and
\* the caller's context, starts no fan-out execution, and returns what the
\* planner returned, unchanged; when should_use_parallel_execution is
\* true, it takes the fan-out path and runs no agent outside it.
C18_DelegatePath ==
    callPc # "idle" =>
        /\ Delegated <=> (~parallelize /\ topology = "star" /\ HasPlanner)
        /\ Delegated =>
              /\ Len(runs) = 1
              /\ runs[1].agent = "PlannerAgent"
              /\ runs[1].task = "raw"
              /\ runs[1].ctx = context
              /\ wfPc = "idle"
              /\ callPc = "star" <=> runs[1].out = "pending"
              /\ (callPc = "returned" /\ runs[1].out # "raise") =>
                    callReturn = [kind |-> "result",
                                  value |-> Result("PlannerAgent",
                                                   runs[1].out)]
        /\ parallelize => (runs = <<>> /\ callPc \in {"fanout", "raised"})
        /\ ~parallelize => wfPc = "idle"

\* A star workflow with a planner has returned the planner's result for a
\* task that is not parallelized, called with a context of the caller's.
C18_Witness ==
    /\ callPc = "returned"
    /\ Delegated
    /\ callReturn.kind = "result"
    /\ context = Dict({<<"user", "caller">>})
    /\ Len(registry) = 3

\* --------------------------------------------------------------- C19
\* The agent.run calls of the chain that have returned a result.
Returned(k) == runs[k].out \notin {"pending", "raise"}

\* What the chain has accumulated after its first k agents: an entry of
\* the caller's context that no agent has written, and for every key an
\* agent has written, the entry of the last agent that wrote it.
Accumulated(k) ==
    {e \in ContextOrEmpty(context) :
        \A j \in 1 .. k : \A f \in Result(runs[j].agent, runs[j].out) :
            f[1] # e[1]}
    \cup UNION {{e \in Result(runs[j].agent, runs[j].out) :
                   \A i \in (j + 1) .. k :
                      \A f \in Result(runs[i].agent, runs[i].out) :
                          f[1] # e[1]} : j \in 1 .. k}

\* The formatted_response of the last of the first k agents that produced
\* one, or the raw task.
TaskAfter(k) ==
    LET producers == {j \in 1 .. k : runs[j].out = "text"}
    IN IF producers = {} THEN "raw"
       ELSE runs[CHOOSE j \in producers : \A i \in producers : i <= j].agent

\* The invocation ran the chain.
Chained == topology = "chain" /\ ~parallelize /\ callPc # "idle"

EventOf(id) ==
    (CHOOSE n \in 1 .. Len(wfLog) : wfLog[n].id = id)

\* The words of the token events among the events ids, in the order of ids.
TokenWords(ids) ==
    LET tokens == SelectSeq(ids,
                      LAMBDA id : wfLog[EventOf(id)].event.kind = "token")
    IN [n \in 1 .. Len(tokens) |-> wfLog[EventOf(tokens[n])].event.word]

\* s is the words first + 1 .. first + Len(s) of the summary.
SegmentAt(s, first) ==
    /\ first + Len(s) <= Len(words)
    /\ \A n \in 1 .. Len(s) : s[n] = words[first + n]

\* The token events the orchestrator published, in the order of the calls.
PublishedTokens == SelectSeq(wfLog, LAMBDA l : l.event.kind = "token")

\* C20: the token events published are the words of the final summary,
\* one event per word in word order; the intake queue accepts them in
\* word order; every subscriber queue is given them in word order, none
\* twice and none skipped once it was given one; a subscriber that
\* subscribed before the summary was streamed is given the words from the
\* first one on; and no token event is published before the aggregation
\* has finished.
C20_TokensInWordOrder ==
    /\ Len(PublishedTokens) = sent
    /\ \A n \in 1 .. Len(PublishedTokens) :
          PublishedTokens[n].event.word = words[n]
    /\ SegmentAt(TokenWords(accepted), 0)
    /\ \A h \in 1 .. nsubs :
          LET given == TokenWords(delivered[h])
          IN /\ \E first \in 0 .. Len(words) : SegmentAt(given, first)
             /\ (PublishedTokens = <<>> \/ PublishedTokens[1].id > subAt[h])
                   => SegmentAt(given, 0)
    /\ wfPc = "returned" =>
          /\ sent = Len(words)
          /\ words = FinalWords(combined)
          /\ wfReturn.final_response = words
    /\ wfPc \in {"idle", "gather", "sleep"} => sent = 0
    /\ sent > 0 =>
          /\ Len(results) = Len(parallel)
          /\ \A i \in 1 .. Len(results) : results[i].st = "done"
          /\ combined = CombineAgentResults(results)

\* The invocation has returned a summary with the text of an agent, and a
\* subscriber that subscribed before the first word has been given every
\* word of it.
C20_Witness ==
    /\ wfPc = "returned"
    /\ nsubs >= 1
    /\ Len(words) >= 6
    /\ TokenWords(delivered[1]) = words

\* ------------------------------------------------------ claims on the router
\* The regular expression of the splitting step matches somewhere in t:
\* a hyphen, a comma, a semicolon, or one of the words and, also, plus,
\* then between whitespace.
HasStructuralDelimiter(t) ==
    \E i \in DOMAIN t : DelimiterEnd(t, i, SplitPunctuation, SplitWords) # 0

\* The keyword buckets (weather, calendar, general) with a keyword in t.
MatchedBuckets(t) ==
    {k \in DOMAIN AgentKeywords :
       \E n \in DOMAIN AgentKeywords[k] : Contains(Lower(t), AgentKeywords[k][n])}

\* C21: should_use_parallel_execution returns true exactly when the raw
\* text matches keywords of at least two of the three buckets or holds at
\* least one delimiter of the decomposer's splitting step, and false for
\* every other input.
C21_ParallelIffBucketsOrDelimiter ==
    "should" \in routerPc =>
       (shouldParallel <=>
          (Cardinality(MatchedBuckets(rawTask)) >= 2
             \/ HasStructuralDelimiter(rawTask)))

\* The locations a weather query for several locations lists, in order.
Listed(lead, a, b, conj, c, ending) == <<a, b, c>>

\* C22: for a task with a weather keyword and several capitalized
\* locations separated by commas and a conjunction, parse_complex_task
\* returns the weather agent as the only key, with one entry per listed
\* location, in the order of the locations.
C22_OneEntryPerLocation ==
    "parse" \in routerPc =>
       \A lead \in Leads, a \in Locations, b \in Locations, c \in Locations,
          conj \in Conjunctions, ending \in Endings :
          rawTask = LocationTask(lead, a, b, conj, c, ending) =>
             LET listed == Listed(lead, a, b, conj, c, ending)
                 entries == parsedTasks.tasks["WeatherAgent"]
             IN /\ parsedTasks.keys = <<"WeatherAgent">>
                /\ \A agent \in Agents \ {"WeatherAgent"} :
                      parsedTasks.tasks[agent] = <<>>
                /\ Len(entries) = Len(listed)
                /\ \A k \in DOMAIN listed : Contains(entries[k], listed[k])

\* The fragments of the splitting step: the pieces of t between its
\* delimiters, without the whitespace around them, that have more than
\* three characters.
LongPieces(t) ==
    LET pieces == ReSplit(t, 1, 1, {"-", ",", ";"},
                          <<WordAnd, WordAlso, WordPlus, WordThen>>)
    IN SelectSeq([k \in DOMAIN pieces |-> Strip(pieces[k])],
                 LAMBDA piece : Len(piece) >= 4)

\* The agent of a fragment: the weather agent when it holds a weather
\* keyword, else the calendar agent when it holds a calendar keyword,
\* else the planner.
BucketOf(piece) ==
    IF \E k \in DOMAIN WeatherKeywords : Contains(Lower(piece), WeatherKeywords[k])
    THEN "WeatherAgent"
    ELSE IF \E k \in DOMAIN CalendarKeywords :
               Contains(Lower(piece), CalendarKeywords[k])
         THEN "CalendarAgent"
         ELSE "PlannerAgent"

\* The agents of the fragments, each once, in the order of their first
\* fragment.
RECURSIVE FirstSeen(_)
FirstSeen(agentsOf) ==
    IF agentsOf = <<>> THEN <<>>
    ELSE LET before == FirstSeen(SubSeq(agentsOf, 1, Len(agentsOf) - 1))
             last == agentsOf[Len(agentsOf)]
         IN IF InSeq(last, before) THEN before ELSE Append(before, last)

\* C23: outside the path for several locations, a task with at least one
\* fragment of more than three characters is decomposed into one sub-task
\* per such fragment; each fragment goes to exactly one agent (weather
\* keyword, else calendar keyword, else planner), and the list of an agent
\* holds the sub-tasks of its fragments in the order of the fragments.
C23_OneSubTaskPerFragment ==
    ("parse" \in routerPc
       /\ ~IsMultiLocationWeatherQuery(rawTask)
       /\ LongPieces(rawTask) # <<>>) =>
       LET pieces == LongPieces(rawTask)
           mine(agent) == SelectSeq(pieces, LAMBDA p : BucketOf(p) = agent)
       IN /\ \A agent \in Agents :
                parsedTasks.tasks[agent] =
                   [k \in DOMAIN mine(agent) |->
                      SubTaskOf(mine(agent)[k], rawTask)]
          /\ parsedTasks.keys =
                FirstSeen([k \in DOMAIN pieces |-> BucketOf(pieces[k])])

\* "Check weather in Seattle - schedule a meeting at 2pm - tell me a joke"
\* has been decomposed into three keys with one sub-task each; two of its
\* fragments were rewritten and the third kept.
C23_Witness ==
    /\ "parse" \in routerPc
    /\ rawTask = FragWeather \o <<" ", "-", " ">> \o FragCalendar
                   \o <<" ", "-", " ">> \o FragGeneral
    /\ parsedTasks.keys = <<"WeatherAgent", "CalendarAgent", "PlannerAgent">>
    /\ parsedTasks.tasks["WeatherAgent"]
          = <<GetWeatherInformationFor \o <<"S", "e", "a", "t", "t", "l", "e">>>>
    /\ parsedTasks.tasks["CalendarAgent"] = <<ScheduleANewMeeting>>
    /\ parsedTasks.tasks["PlannerAgent"] = <<FragGeneral>>

\* --------------------------------------------------- claims on the dispatcher
\* The text the last onText call worked on: the buffer it found, its text
\* and the separating space.
AccumulatedText == lastCall.before \o lastCall.text \o <<Space>>

\* The sink took every send of the last call.
SinkAccepted ==
    /\ lastCall.conn = "open"
    /\ \A n \in DOMAIN lastCall.tried : lastCall.tried[n].out = "sent"

\* The sentences of s that end with '.', '!' or '?' followed by whitespace.
RECURSIVE TerminatedSentences(_)
TerminatedSentences(s) ==
    IF SentenceEnd(s) = 0 THEN <<>>
    ELSE <<StripText(SubSeq(s, 1, SentenceEnd(s) - 1))>>
           \o TerminatedSentences(SubSeq(s, SentenceEnd(s), Len(s)))

\* The text of s after its last sentence boundary.
RECURSIVE AfterLastBoundary(_)
AfterLastBoundary(s) ==
    IF SentenceEnd(s) = 0 THEN s
    ELSE AfterLastBoundary(SubSeq(s, SentenceEnd(s), Len(s)))

\* C24: after an onText call whose sends the sink accepted, every
\* sentence of the accumulated text that ends with '.', '!' or '?'
\* followed by whitespace has been forwarded as a chunk of its own during
\* the call, and when the accumulated text ends with such a sentence
\* nothing is left in the buffer.
C24_TerminatedSentencesForwarded ==
    (lastCall.op = "onText" /\ SinkAccepted /\ Len(AccumulatedText) <= Threshold) =>
       /\ \A k \in DOMAIN TerminatedSentences(AccumulatedText) :
             \E n \in DOMAIN lastCall.tried :
                lastCall.tried[n].chunk = TerminatedSentences(AccumulatedText)[k]
       /\ StripText(AfterLastBoundary(AccumulatedText)) = <<>>
             => textBuffer = <<>>

\* t is the end of s.
EndsWith(s, t) ==
    Len(t) <= Len(s) /\ SubSeq(s, Len(s) - Len(t) + 1, Len(s)) = t

\* C25: after an onText call that leaves the threshold alone, the text
\* after the last sentence boundary has not been forwarded and is still at
\* the end of the buffer.
C25_TrailingTextKept ==
    (lastCall.op = "onText" /\ Len(AccumulatedText) <= Threshold) =>
       LET trailing == StripText(AfterLastBoundary(AccumulatedText))
       IN /\ EndsWith(StripText(textBuffer), trailing)
          /\ \A n \in DOMAIN lastCall.tried :
                \A k \in DOMAIN trailing :
                   \A j \in DOMAIN lastCall.tried[n].chunk :
                      lastCall.tried[n].chunk[j] # trailing[k]

\* The last send the last call attempted.
LastTried == lastCall.tried[Len(lastCall.tried)]

\* C26: when an onText call has more text than the threshold in the
\* buffer after the sentences were handled, it sends the whole buffer as
\* one chunk, the last of the call, and leaves the buffer empty; text
\* longer than the threshold without a terminator, arriving at an empty
\* buffer, gives exactly one chunk; a buffer within the threshold and
\* without a sentence boundary gives no chunk.
C26_ThresholdFlush ==
    lastCall.op = "onText" =>
       /\ Len(lastCall.pending) > Threshold =>
             /\ textBuffer = <<>>
             /\ lastCall.tried # <<>>
             /\ LastTried.chunk = StripText(lastCall.pending)
             /\ LastTried.out = "sent" =>
                   sinkLog # <<>> /\ sinkLog[Len(sinkLog)] = LastTried.chunk
       /\ (/\ lastCall.before = <<>>
           /\ Len(lastCall.text) > Threshold
           /\ SentenceEnd(AccumulatedText) = 0) =>
             /\ Len(lastCall.tried) = 1
             /\ LastTried.chunk = lastCall.text
       /\ (Len(lastCall.pending) <= Threshold /\ SentenceEnd(AccumulatedText) = 0) =>
             /\ lastCall.tried = <<>>
             /\ textBuffer = lastCall.pending

\* Text of one character more than the threshold, without punctuation,
\* arrived at an empty buffer and went to the sink as one chunk.
C26_Witness ==
    /\ lastCall.op = "onText"
    /\ lastCall.before = <<>>
    /\ Chars(lastCall.text) = TextLong
    /\ sinkLog = <<lastCall.text>>
    /\ textBuffer = <<>>

\* A second text took the buffer over the threshold, and the buffer went
\* to the sink as one chunk.
C26_WitnessAccumulated ==
    /\ lastCall.op = "onText"
    /\ Chars(lastCall.before) = TextFull
    /\ Chars(lastCall.text) = TextToday
    /\ sinkLog = <<lastCall.before \o lastCall.text>>
    /\ textBuffer = <<>>

\* C27 as stated: flush_buffer() sends all the buffered text as one chunk
\* and leaves the buffer empty; on an empty buffer it sends nothing.
C27_FlushEmptiesBuffer ==
    lastCall.op = "flush" =>
       /\ textBuffer = <<>>
       /\ lastCall.before = <<>> => lastCall.tried = <<>>
       /\ lastCall.before # <<>> =>
             /\ Len(lastCall.tried) = 1
             /\ LastTried.chunk = StripText(lastCall.before)

\* C27, amended: flush_buffer() sends the text of the buffer, without the
\* whitespace around it, as one chunk whatever boundaries it holds, and
\* leaves the buffer empty; a buffer that is empty or holds whitespace
\* only is left as it is and nothing is sent; after a flush the buffer
\* holds no text, so that another flush sends nothing.
C27_FlushSendsText ==
    lastCall.op = "flush" =>
       /\ StripText(textBuffer) = <<>>
       /\ StripText(lastCall.before) = <<>> =>
             lastCall.tried = <<>> /\ textBuffer = lastCall.before
       /\ StripText(lastCall.before) # <<>> =>
             /\ textBuffer = <<>>
             /\ Len(lastCall.tried) = 1
             /\ LastTried.chunk = StripText(lastCall.before)
             /\ LastTried.out = "sent" =>
                   sinkLog # <<>> /\ sinkLog[Len(sinkLog)] = LastTried.chunk

\* A flush sent a buffer that held a terminated sentence the onText call
\* before it had kept, and the flush after it sent nothing.
C27_Witness ==
    /\ lastCall.op = "flush"
    /\ nflushes = 2
    /\ lastCall.before = <<>>
    /\ lastCall.tried = <<>>
    /\ Len(sinkLog) = 1
    /\ Chars(sinkLog[1]) = TextToday

\* The positions, in the stream of arrived text, of the characters the
\* sink has been given, in the order it was given them.
SinkPositions ==
    LET given == SelectSeq(ConcatAll(sinkLog), LAMBDA c : c.at > 0)
    IN [k \in DOMAIN given |-> given[k].at]

\* C28: the sink is given text in the order of its arrival: of two pieces
\* of text, the one that arrived first is never sent after the other.
C28_ChunksInArrivalOrder ==
    \A k \in 1 .. Len(SinkPositions) - 1 :
       SinkPositions[k] < SinkPositions[k + 1]

\* One call has sent two sentences, and a call before it a chunk.
C28_Witness ==
    /\ Len(sinkLog) >= 3
    /\ Len(lastCall.tried) >= 2
    /\ SinkAccepted

\* C29: the text of a chunk whose send failed (no connection, a closed
\* connection, an exception of send) is still in the buffer after the
\* call.
C29_FailedChunkKept ==
    \A n \in DOMAIN lastCall.tried :
       lastCall.tried[n].out # "sent" =>
          \A k \in DOMAIN lastCall.tried[n].chunk :
             \E j \in DOMAIN textBuffer :
                textBuffer[j] = lastCall.tried[n].chunk[k]

\* ---------------------------------------------------------------- C30
\* The text of the arrivals a .. b joined by single spaces.
RECURSIVE JoinedArrivals(_, _)
JoinedArrivals(a, b) ==
    IF a = b THEN arrivals[a].text
    ELSE arrivals[a].text \o <<Space>> \o JoinedArrivals(a + 1, b)

\* The arrival whose last character is the last character of batch k.
BatchLast(k) ==
    LET text == batchLog[k].text
    IN CHOOSE b \in DOMAIN arrivals :
          arrivals[b].text[Len(arrivals[b].text)] = text[Len(text)]

\* The arrival whose first character is the first character of batch k.
BatchFirst(k) ==
    CHOOSE a \in DOMAIN arrivals : arrivals[a].text[1] = batchLog[k].text[1]

\* The number of arrivals that have been passed on in a batch.
Batched == IF batchLog = <<>> THEN 0 ELSE BatchLast(Len(batchLog))

\* The stream positions of the characters of the arrivals after i.
PositionsAfter(i) ==
    UNION {{arrivals[j].text[n].at : n \in DOMAIN arrivals[j].text} :
              j \in i + 1 .. Len(arrivals)}

\* C30: in the batching dispatcher the texts that arrive with less than the
\* delay between one and the next are combined, in arrival order, into one
\* text that is passed once to AudioDispatcher._process_speech_text, after
\* the delay has passed since the last of them: every batch is the join of
\* consecutive arrivals that starts where the batch before ended, a text
\* that came within the delay of the one before is never in a later batch
\* than it, a batch is passed no sooner than the delay after its last text,
\* and until then its texts are pending under a sleeping timer and no
\* character of them is in the buffer or in a chunk the sink received.
C30_BurstCombinedOnce ==
    /\ \A k \in DOMAIN batchLog :
          /\ \E a, b \in DOMAIN arrivals :
                /\ a <= b
                /\ a = IF k = 1 THEN 1 ELSE BatchLast(k - 1) + 1
                /\ batchLog[k].text = JoinedArrivals(a, b)
          /\ BatchLast(k) + 1 \in DOMAIN arrivals
                => ~ arrivals[BatchLast(k) + 1].close
          /\ batchLog[k].waited >= BatchDelay
    /\ pendingTexts =
          [i \in 1 .. Len(arrivals) - Batched |-> arrivals[Batched + i].text]
    /\ pendingTexts # <<>> => batchTimer.state = "sleeping"
    /\ \A n \in DOMAIN textBuffer :
          textBuffer[n].at \notin PositionsAfter(Batched)
    /\ \A c \in DOMAIN sinkLog : \A n \in DOMAIN sinkLog[c] :
          sinkLog[c][n].at \notin PositionsAfter(Batched)

\* Two texts that came within the delay of each other have been passed on
\* as one batch after the delay, and a sentence of it has reached the sink.
C30_Witness ==
    /\ Len(batchLog) = 1
    /\ BatchFirst(1) = 1
    /\ BatchLast(1) = 2
    /\ arrivals[2].close
    /\ batchTimer.state = "done"
    /\ sinkLog # <<>>

\* Two texts that came further apart than the delay have been passed on
\* one by one.
C30_WitnessApart ==
    /\ Len(batchLog) = 2
    /\ BatchLast(1) = 1
    /\ BatchFirst(2) = 2
    /\ ~ arrivals[2].close

\* ---------------------------------------------------------------- C31
\* The phases of a fan-out invocation in their order: before the
\* decomposition, executing, aggregated, streaming the summary, returned.
PhaseOrder == <<"idle", "gather", "sleep", "stream", "returned">>

PhaseOf(pc) == CHOOSE n \in DOMAIN PhaseOrder : PhaseOrder[n] = pc

\* The combined result has been built.
Aggregated == wfPc \in {"sleep", "stream", "returned"}

\* The token events published so far.
TokensPublished ==
    {n \in DOMAIN wfLog : wfLog[n].event.kind = "token"}

\* C31: a fan-out invocation goes through its phases strictly in order:
\* no agent execution has started before the decomposition is there and
\* the executions are those of its sub-tasks; every dispatched execution
\* has completed, with a result or a captured failure, when the combined
\* result is built, and the combined result is built from exactly these;
\* no summary token is published and the call does not return before the
\* combined result is built; the position of the invocation only ever
\* moves to the next phase; and a step of an agent execution, failing or
\* not, leaves the invocation in the executing phase.
C31_PhasesInOrder ==
    /\ [](/\ wfPc \in Range(PhaseOrder)
          /\ wfPc = "idle" => branch = <<>> /\ agentTasks = <<>>
          /\ wfPc # "idle" =>
                /\ parallel = ParallelTasks(agentTasks, agents)
                /\ Len(branch) = Len(parallel)
          /\ (\E i \in DOMAIN branch : branch[i].st # "pending")
                => wfPc # "idle"
          /\ Aggregated =>
                /\ \A i \in DOMAIN branch : branch[i].st = "done"
                /\ results = branch
                /\ combined.total_agents = Len(branch)
          /\ ~Aggregated => TokensPublished = {} /\ wfReturn.type = "none"
          /\ wfReturn.type # "none" => wfPc = "returned" /\ sent = Len(words))
    /\ [][/\ wfPc' # wfPc => PhaseOf(wfPc') = PhaseOf(wfPc) + 1
          /\ branch' # branch /\ wfPc = "gather" => wfPc' = "gather"]_vars

\* An invocation has returned its combined result after one of its agent
\* executions failed and another succeeded.
C31_Witness ==
    /\ wfPc = "returned"
    /\ wfReturn.type = "complex_coordination"
    /\ \E i, j \in DOMAIN branch : ~branch[i].success /\ branch[j].success
    /\ TokensPublished # {}

\* ---------------------------------------------------------------- C32
\* The consumer loops that have finished.
EndedLoops == {h \in 1 .. nsubs : consumers[h].pc = "ended"}

\* C32: when a consumer loop has ended, by an exception in its body, by
\* cancellation or the closing of the generator, or because the dispatcher
\* was stopped, its queue is no longer in the subscriber list of the bus;
\* and the step in which a loop ends is the step that removes its queue.
C32_EndedLoopUnsubscribed ==
    /\ [](\A h \in EndedLoops : h \notin Range(subscribers))
    /\ [][\A h \in 1 .. nsubs :
             (consumers[h].pc # "ended" /\ consumers'[h].pc = "ended")
                => /\ h \in Range(subscribers)
                   /\ subscribers' = ListRemove(subscribers, h)]_vars

\* A consumer loop that had received an event has ended while the loop of
\* another queue is still subscribed and waiting.
C32_Witness ==
    \E h \in EndedLoops :
       /\ delivered[h] # <<>>
       /\ \E g \in Range(subscribers) : consumers[g].pc = "get"

\* ---------------------------------------------------------------- C33
\* The characters of s that are not whitespace, each with its position in
\* the stream of arrived text.
Letters(s) == SelectSeq(s, LAMBDA c : c.ch \notin Whitespace)

\* C33: with a connected sink that accepts every send, a call of the
\* streaming dispatcher neither drops nor repeats nor reorders text: the
\* chunks the sink has received followed by the buffer hold, after an
\* onText or a flush, the characters they held before followed by those
\* of the text that arrived, each once and in arrival order.
C33_TextConserved ==
    [][(/\ ntexts' # ntexts \/ nflushes' # nflushes
        /\ lastCall'.conn = "open"
        /\ \A n \in DOMAIN lastCall'.tried : lastCall'.tried[n].out = "sent")
          => Letters(ConcatAll(sinkLog') \o textBuffer')
               = Letters(ConcatAll(sinkLog) \o textBuffer \o lastCall'.text)]_vars

\* ---------------------------------------------------------------- C34
\* The timer task is suspended in a send of the batch it is processing.
Processing == batchTimer.state \in {"sentence", "threshold"}

\* C34: in the batching dispatcher a text that arrives while a batch is
\* being processed does not interrupt the processing: the task that sends
\* the chunks of the batch is still in its send after the arrival, and no
\* piece of text reaches the sink twice.
C34_ProcessingNotInterrupted ==
    /\ [][(Processing /\ ntexts' # ntexts)
            => batchTimer'.state = batchTimer.state]_vars
    /\ [](\A j, k \in DOMAIN SinkPositions :
             j # k => SinkPositions[j] # SinkPositions[k])

\* The sink has received a sentence twice.
C34_SentTwice ==
    \E j, k \in DOMAIN sinkLog : j # k /\ sinkLog[j] = sinkLog[k]

\* ---------------------------------------------------------------- C35
\* The events a step takes off the intake queue.
Removed == {e \in Range(queue) : ~InSeq(e, queue')}

\* C35: an event leaves the intake queue only by being distributed: the
\* step that takes it off the queue puts it on the queue of every
\* subscriber that is in the subscriber list at that moment, whatever the
\* interleaving of the dispatch loop with callers of get_next_action().
C35_DequeuedIsDistributed ==
    [][\A e \in Removed : \A h \in Range(subscribers) :
          /\ ~InSeq(e, delivered[h])
          /\ InSeq(e, delivered'[h])]_vars

\* ---------------------------------------------------------------- C36
\* C36: an invocation that takes no fan-out path ends in one terminal
\* outcome: its events never hold both the workflow-failed error event
\* and the workflow-completed status event.
C36_OneTerminalOutcome ==
    ~parallelize => ~(InSeq("failed", callLog) /\ InSeq("completed", callLog))

\* ---------------------------------------------------------------- C37
\* C37: after CommandBus.stop() has returned the dispatch loop distributes
\* nothing that is published afterwards: an event that has not been
\* published yet when the bus is stopped is never put on the queue of a
\* subscriber.
C37_NothingDeliveredAfterStop ==
    stopAt >= 0 =>
        \A h \in Handles :
           \A i \in 1 .. Len(delivered[h]) : delivered[h][i] <= stopAt

\* ---------------------------------------------------------------- C38
\* The callers that have called get_command_bus().
Served == {c \in Callers : obtained[c] # 0}

\* C38: under any interleaving of the callers of get_command_bus() and of
\* the emit tasks in one event loop, at most one CommandBus is ever made,
\* its dispatch loop is started once, exactly one has been made as soon as
\* any caller or emit task has asked for the bus, and every caller has
\* obtained that same instance, to which the global refers.
C38_OneCommandBus ==
    /\ instances <= 1
    /\ loopStarts = instances
    /\ commandBus = instances
    /\ (Served # {} \/ accepted # <<>>) => instances = 1
    /\ \A c \in Served : obtained[c] = commandBus
    /\ loopPc # "none" <=> instances = 1

\* Every caller has obtained the bus, after an emit task had made it, and
\* events published both ways have been distributed by its loop.
C38_Witness ==
    /\ Served = Callers
    /\ instances = 1
    /\ Len(accepted) >= 2
    /\ queue = <<>>
    /\ loopPc = "get"

\* ---------------------------------------------------------------- C39
\* The number of results stored in the first k entries of agent_results.
StoredUpTo(ar, k) ==
    LET count[i \in 0 .. k] ==
            IF i = 0 THEN 0 ELSE count[i - 1] + Len(ar[i].results)
    IN count[k]

\* The agent names that have an entry with at least one stored result.
AgentsWithResults(ar) ==
    {ar[k].agent : k \in {i \in 1 .. Len(ar) : ar[i].results # <<>>}}

\* A combined result has been built by _combine_agent_results.
CombinedBuilt == combined # <<>>

\* C39: in every combined result of the fan-out aggregation, the entries of
\* failed_agents plus the results stored in all agent_results lists number
\* total_agents, which is the number of executions awaited; success_rate
\* lies between 0 and 1; successful_agents holds no name twice and exactly
\* the agents that have at least one stored result.
C39_CombinedAccounts ==
    CombinedBuilt =>
        /\ combined.total_agents = Len(branch)
        /\ Len(combined.failed_agents)
             + StoredUpTo(combined.agent_results,
                          Len(combined.agent_results))
           = combined.total_agents
        /\ 0 <= combined.success_rate.num
        /\ combined.success_rate.den > 0
        /\ combined.success_rate.num <= combined.success_rate.den
        /\ \A i, j \in DOMAIN combined.successful_agents :
              combined.successful_agents[i] = combined.successful_agents[j]
                 => i = j
        /\ {combined.successful_agents[i] :
                i \in DOMAIN combined.successful_agents}
           = AgentsWithResults(combined.agent_results)

\* A combined result of three executions: one agent succeeded twice, and
\* one execution failed.
C39_Witness ==
    /\ CombinedBuilt
    /\ combined.total_agents = 3
    /\ Len(combined.failed_agents) = 1
    /\ Len(combined.successful_agents) = 1
    /\ \E k \in DOMAIN combined.agent_results :
          Len(combined.agent_results[k].results) = 2

\* ---------------------------------------------------------------- C40
\* C40: an invocation leaves the context map of its caller as it was: when
\* the call has returned, for every topology, the caller's context object
\* has the entries it was passed with.
C40_CallerContextUnchanged ==
    callPc = "returned" => callerContext = context

====
